---- MODULE Spec2Model ----
(***************************************************************************)
(* A model of the mage thumbnail service: the URL parser and signature     *)
(* verifier (pure functions), the request executor of                      *)
(* handler/thumbnail.go (singleflight group, processing semaphore), the    *)
(* cached storage of storage/cached.go (memory tier, async writer queue)   *)
(* and the disk cache of cache/disk_cache.go (LRU index, size counter,     *)
(* delete queue, cleanup).                                                 *)
(*                                                                         *)
(* Strings of the program are sequences of one-character strings, so that  *)
(* splitting, prefix tests and digit parsing are computed as the code      *)
(* computes them.                                                          *)
(***************************************************************************)
EXTENDS Integers, Sequences, FiniteSets, TLC

VARIABLES
  \* --- signature development (ParseURL followed by Signature.Verify)
  sigSecret,      \* Signature.secretKey
  sigPath,        \* the URL path handed to ParseURL
  sigPc,          \* "start" | "parsed" | "verified"
  sigReq,         \* the result of ParseURL
  sigVerify,      \* the result of Verify: "none" | "ok" | an error kind
  \* --- request executor (ThumbnailHandler.ServeHTTP)
  semCap,         \* capacity of the processSem channel
  pc,             \* per request: position in ServeHTTP
  url,            \* per request: index of its URL in Urls (0 before arrival)
  got,            \* per request: the bytes GetThumbnail returned (<<>>: not found)
  role,           \* per request: "none" | "leader" | "follower"
  leaderOf,       \* per request: the request that leads the flight it joined
  outcome,        \* per request: what singleflight.Do returned to it
  resp,           \* per request: the response written
  hist,           \* per request: the steps it has taken (parsed, verified, fetched, ...)
  group,          \* singleflight.Group.m: key -> leader of the flight in progress (0: none)
  processSem,     \* number of tokens in the processSem channel
  thumbMem,       \* thumbnails memory tier: key -> bytes (<<>>: absent)
  thumbQueue,     \* thumbWriteQueue: sequence of cacheWriteTask
  thumbDisk,      \* thumbnails disk tier, reduced to key -> bytes (<<>>: absent)
  transformCalls, \* per key: number of CreateThumbnail invocations so far
  \* --- cached storage, thumbnails tier (SetThumbnail / GetThumbnail)
  csMem,          \* thumbMemoryCache: key -> bytes (<<>>: absent)
  csDisk,         \* thumbDiskCache, reduced to key -> bytes (<<>>: absent)
  csQueue,        \* thumbWriteQueue
  csLastSet,      \* per key: the value of the last SetThumbnail that returned, and
                  \* whether the next GetThumbnail is still bound by it
  csGot,          \* the last GetThumbnail: its key, its result, the value it was bound to
  \* --- disk cache (DiskCache)
  dcPhase,        \* "loading" (NewDiskCache in loadIndexFromDisk) | "running"
  dcScan,         \* the files the startup walk has still to visit, in walk order
  dcFiles,        \* the cache files on disk: path -> size (0: no such file)
  dcLru,          \* the LRU index: sequence of cacheEntry, oldest first
  dcCurrentSize,  \* DiskCache.currentSize
  dcDeleteQueue,  \* deleteQueue: paths scheduled for unlink
  dcInline,       \* paths handed to a spawned deleteFile goroutine
  dcCleanupPos,   \* DiskCache.cleanupPos
  dcNow,          \* the clock, in seconds
  dcPending,      \* per writer: the entry of a Set whose file is written and whose
                  \* index update is still to come (hash 0: none)
  dcCleared,      \* Clear has been called
  dcGot,          \* what a Get that has just run returns to its caller (hash 0: no Get)
  \* --- one cleanup pass over a large index (performCleanup, loop by loop)
  pass,           \* the locals of performCleanup and its position
  \* --- the files of one cache path under concurrent Sets (os.WriteFile, os.Rename)
  fsDir,          \* directory: "tmp" and "final" -> inode (0: no such name)
  fsInode,        \* inode -> content
  fsWriter,       \* per writer in Set: its position, its payload and its open file
  fsIndex,        \* the index holds an entry for the path
  fsQueue,        \* number of unlinks of the path in the delete queue
  fsPassed,       \* the payloads passed to Set so far
  fsGot,          \* the last Get of the key: [result, data]
  \* --- cached storage, sources tier and shutdown (GetObject, Close)
  srcMem,         \* sourceMemoryCache: key -> bytes (<<>>: absent)
  srcDisk,        \* sourceDiskCache, reduced to key -> bytes (<<>>: absent)
  srcQueue,       \* sourceWriteQueue
  srcGot,         \* the last GetObject: its key, the tiers it went through, its result
  stWorkers,      \* per tier: writer goroutines that have not returned
  stClose,        \* the position of Close, and the tasks queued when it was called
  \* --- handler under faults
  cancelled,      \* the requests whose context has been cancelled
  \* --- the transformation of one parsed plan (operations.ApplyAll)
  applied,        \* the steps ApplyAll has taken on the image, in order
  \* --- the cleanup goroutine of the disk cache (DiskCache.cleanupExpired)
  scanner         \* its position, its locals interval and runs, the signals pending
                  \* in cleanupWake and the result of its last pass

sigVars == <<sigSecret, sigPath, sigPc, sigReq, sigVerify>>
handlerVars == <<semCap, pc, url, got, role, leaderOf, outcome, resp, hist, group,
                 processSem, thumbMem, thumbQueue, thumbDisk, transformCalls>>
csVars == <<csMem, csDisk, csQueue, csLastSet, csGot>>
dcVars == <<dcPhase, dcScan, dcFiles, dcLru, dcCurrentSize, dcDeleteQueue,
            dcInline, dcCleanupPos, dcNow, dcPending, dcCleared, dcGot>>
fsVars == <<fsDir, fsInode, fsWriter, fsIndex, fsQueue, fsPassed, fsGot>>
stVars == <<srcMem, srcDisk, srcQueue, srcGot, stWorkers, stClose>>
extVars == <<pass, fsVars, stVars, cancelled, applied, scanner>>
vars == <<sigVars, handlerVars, csVars, dcVars, extVars>>

(***************************************************************************)
(* Strings                                                                 *)
(***************************************************************************)
Digits == <<"0","1","2","3","4","5","6","7","8","9">>
HexLower == <<"0","1","2","3","4","5","6","7","8","9","a","b","c","d","e","f">>
HexUpper == <<"0","1","2","3","4","5","6","7","8","9","A","B","C","D","E","F">>
Alphabet == HexLower \o <<"g","h","i","j","k","l","m","n","o","p","q","r","s","t","u",
             "v","w","x","y","z","A","B","C","D","E","F","/",".",":","(",")",";",",",
             "?","#","_"," ">>

Range(s) == {s[i] : i \in 1..Len(s)}

\* position of character c in the table t (0: absent)
PosIn(t, c) == IF c \in Range(t) THEN CHOOSE i \in 1..Len(t) : t[i] = c ELSE 0

\* strings.IndexByte, 1-based; 0 when c does not occur (Go: -1)
IndexByte(s, c) ==
  IF c \in Range(s)
  THEN CHOOSE i \in 1..Len(s) : s[i] = c /\ \A j \in 1..(i-1) : s[j] # c
  ELSE 0

\* strings.IndexAny for a set of characters
IndexAny(s, cs) ==
  IF Range(s) \cap cs # {}
  THEN CHOOSE i \in 1..Len(s) : s[i] \in cs /\ \A j \in 1..(i-1) : s[j] \notin cs
  ELSE 0

HasPrefix(s, p) == Len(s) >= Len(p) /\ SubSeq(s, 1, Len(p)) = p
HasSuffix(s, p) == Len(s) >= Len(p) /\ SubSeq(s, Len(s) - Len(p) + 1, Len(s)) = p
TrimPrefix(s, p) == IF HasPrefix(s, p) THEN SubSeq(s, Len(p) + 1, Len(s)) ELSE s

\* strings.ToLower on the characters the model uses
LowerChar(c) == IF c \in Range(HexUpper) /\ c \notin Range(Digits)
                THEN HexLower[PosIn(HexUpper, c)] ELSE c
ToLower(s) == [i \in 1..Len(s) |-> LowerChar(s[i])]

RECURSIVE TrimLeft(_)
TrimLeft(s) == IF s # <<>> /\ s[1] = " " THEN TrimLeft(Tail(s)) ELSE s
RECURSIVE TrimRight(_)
TrimRight(s) == IF s # <<>> /\ s[Len(s)] = " " THEN TrimRight(SubSeq(s, 1, Len(s) - 1)) ELSE s
TrimSpace(s) == TrimRight(TrimLeft(s))

\* strings.SplitN(s, c, n) for n > 0: at most n parts, the last one unsplit
RECURSIVE SplitN(_, _, _)
SplitN(s, c, n) ==
  LET i == IndexByte(s, c) IN
  IF n <= 1 \/ i = 0 THEN <<s>>
  ELSE <<SubSeq(s, 1, i - 1)>> \o SplitN(SubSeq(s, i + 1, Len(s)), c, n - 1)

Split(s, c) == SplitN(s, c, Len(s) + 1)

RECURSIVE Join(_, _)
Join(parts, c) ==
  IF parts = <<>> THEN <<>>
  ELSE IF Len(parts) = 1 THEN parts[1]
  ELSE parts[1] \o <<c>> \o Join(Tail(parts), c)


(***************************************************************************)
(* internal/operations: the size segment and the default operations        *)
(***************************************************************************)
NilInt == -1   \* a nil *int

S_thumbs == <<"t","h","u","m","b","s">>
S_filters == <<"f","i","l","t","e","r","s",":">>
S_as == <<"a","s">>
S_jpeg == <<"j","p","e","g">>
S_jpg == <<"j","p","g">>
S_png == <<"p","n","g">>
S_webp == <<"w","e","b","p">>
S_avif == <<"a","v","i","f">>
S_cover == <<"c","o","v","e","r">>
S_white == <<"w","h","i","t","e">>

MaxResizeWidth == 5120
MaxResizeHeight == 5120
MaxResizeResolution == MaxResizeWidth * MaxResizeHeight
DefaultQuality == 75

\* Go's int on the 64-bit targets of the build: a value is kept as four limbs of 16
\* bits, the lowest first, and arithmetic wraps modulo 2^64
LimbBase == 2^16
Int64Zero == <<0, 0, 0, 0>>

\* x*10 + d, wrapped
Int64MulAdd(x, d) ==
  LET v1 == x[1] * 10 + d
      v2 == x[2] * 10 + (v1 \div LimbBase)
      v3 == x[3] * 10 + (v2 \div LimbBase)
      v4 == x[4] * 10 + (v3 \div LimbBase)
  IN <<v1 % LimbBase, v2 % LimbBase, v3 % LimbBase, v4 % LimbBase>>

\* -x, wrapped (the two's complement: -MinInt64 is MinInt64)
Int64Neg(x) ==
  LET v1 == (LimbBase - 1 - x[1]) + 1
      v2 == (LimbBase - 1 - x[2]) + (v1 \div LimbBase)
      v3 == (LimbBase - 1 - x[3]) + (v2 \div LimbBase)
      v4 == (LimbBase - 1 - x[4]) + (v3 \div LimbBase)
  IN <<v1 % LimbBase, v2 % LimbBase, v3 % LimbBase, v4 % LimbBase>>

\* the signed value of the limbs; a value whose magnitude is above 2^31 - 1 is given
\* as 2^31 - 1 with its sign, which every comparison made of it (with 0, 1, 100 and
\* the resize limits) answers as the value itself
Beyond == (2^30 - 1) + 2^30
Int64Small(x) == x[4] = 0 /\ x[3] = 0 /\ x[2] < LimbBase \div 2
Int64Value(x) ==
  IF x[4] >= LimbBase \div 2
  THEN IF Int64Small(Int64Neg(x)) THEN 0 - (Int64Neg(x)[2] * LimbBase + Int64Neg(x)[1])
       ELSE 0 - Beyond
  ELSE IF Int64Small(x) THEN x[2] * LimbBase + x[1] ELSE Beyond

\* the accumulation num = num*10 + int(ch-'0') of parsePositiveInt, of
\* QualityOperation.Parse and of the coordinate loops
RECURSIVE DecLimbs(_, _)
DecLimbs(s, x) ==
  IF s = <<>> THEN x ELSE DecLimbs(Tail(s), Int64MulAdd(x, PosIn(Digits, s[1]) - 1))
DecValue(s, num) == Int64Value(DecLimbs(s, <<num % LimbBase, num \div LimbBase, 0, 0>>))

parsePositiveInt(s) ==
  IF s = <<>> THEN [ok |-> FALSE, num |-> 0]
  ELSE IF \E i \in 1..Len(s) : s[i] \notin Range(Digits) THEN [ok |-> FALSE, num |-> 0]
  ELSE LET num == DecValue(s, 0) IN
       IF num <= 0 THEN [ok |-> FALSE, num |-> 0] ELSE [ok |-> TRUE, num |-> num]

\* ResizeOperation.IsSizeFormat
IsSizeFormat(str) == IndexByte(str, "x") # 0

\* ResizeOperation.ParseSize on a fresh clone (Fit cover, FillColor white)
ParseSize(sizeStr) ==
  LET xIndex == IndexByte(sizeStr, "x")
      widthStr == SubSeq(sizeStr, 1, xIndex - 1)
      heightStr == SubSeq(sizeStr, xIndex + 1, Len(sizeStr))
      w == parsePositiveInt(widthStr)
      h == parsePositiveInt(heightStr)
      op(wd, ht) == [name |-> "resize", Width |-> wd, Height |-> ht,
                     Fit |-> S_cover, FillColor |-> S_white]
  IN IF xIndex = 0 THEN [err |-> "size", op |-> op(NilInt, NilInt)]
     ELSE IF widthStr = <<>> /\ heightStr = <<>> THEN [err |-> "", op |-> op(NilInt, NilInt)]
     ELSE IF widthStr # <<>> /\ ~w.ok THEN [err |-> "width", op |-> op(NilInt, NilInt)]
     ELSE IF heightStr # <<>> /\ ~h.ok THEN [err |-> "height", op |-> op(NilInt, NilInt)]
     ELSE [err |-> "",
           op |-> op(IF widthStr # <<>> THEN w.num ELSE NilInt,
                     IF heightStr # <<>> THEN h.num ELSE NilInt)]

\* ResizeOperation.Validate
ResizeValidate(o) ==
  IF o.Width # NilInt /\ o.Width > MaxResizeWidth THEN "max-width"
  ELSE IF o.Height # NilInt /\ o.Height > MaxResizeHeight THEN "max-height"
  ELSE IF o.Width # NilInt /\ o.Height # NilInt /\ o.Width * o.Height > MaxResizeResolution
       THEN "max-resolution"
  ELSE ""

\* FormatOperation.DetectFromExtension on a fresh clone (Format jpeg)
DetectFromExtension(path) ==
  LET ext == ToLower(path) IN
  IF HasSuffix(ext, <<".">> \o S_webp) THEN S_webp
  ELSE IF HasSuffix(ext, <<".">> \o S_png) THEN S_png
  ELSE S_jpeg

\* FormatOperation.Parse: [handled, err, op]
FormatParse(filter) ==
  LET pre == <<"f","o","r","m","a","t","(">>
      content == TrimSpace(SubSeq(filter, 8, Len(filter) - 1))
      format == ToLower(content)
      none == [name |-> "format", Format |-> S_jpeg]
  IN IF ~HasPrefix(filter, pre) THEN [handled |-> FALSE, err |-> "", op |-> none]
     ELSE IF ~HasSuffix(filter, <<")">>) THEN [handled |-> FALSE, err |-> "format-paren", op |-> none]
     ELSE IF content = <<>> THEN [handled |-> FALSE, err |-> "format-empty", op |-> none]
     ELSE IF format \in {S_webp, S_jpeg, S_png, S_jpg}
          THEN [handled |-> TRUE, err |-> "", op |-> [name |-> "format", Format |-> format]]
     ELSE [handled |-> FALSE, err |-> "format-unsupported", op |-> none]

\* QualityOperation.Parse: [handled, err, op]
QualityParse(filter) ==
  LET pre == <<"q","u","a","l","i","t","y","(">>
      content == TrimSpace(SubSeq(filter, 9, Len(filter) - 1))
      quality == DecValue(content, 0)
      none == [name |-> "quality", Quality |-> DefaultQuality]
  IN IF ~HasPrefix(filter, pre) THEN [handled |-> FALSE, err |-> "", op |-> none]
     ELSE IF ~HasSuffix(filter, <<")">>) THEN [handled |-> FALSE, err |-> "quality-paren", op |-> none]
     ELSE IF content = <<>> THEN [handled |-> FALSE, err |-> "quality-empty", op |-> none]
     ELSE IF \E i \in 1..Len(content) : content[i] \notin Range(Digits)
          THEN [handled |-> FALSE, err |-> "quality-number", op |-> none]
     ELSE IF quality < 1 \/ quality > 100 THEN [handled |-> FALSE, err |-> "quality-range", op |-> none]
     ELSE [handled |-> TRUE, err |-> "", op |-> [name |-> "quality", Quality |-> quality]]

S_fill == <<"f","i","l","l">>
S_black == <<"b","l","a","c","k">>
S_transparent == <<"t","r","a","n","s","p","a","r","e","n","t">>

\* what FitOperation.Parse returns, [handled, err, op], with the operation's fields
FitResult(handled, err, mode, fill) ==
  [handled |-> handled, err |-> err,
   op |-> [name |-> "fit", Mode |-> mode, FillColor |-> fill, Format |-> <<>>]]

FitFail(err) == FitResult(FALSE, err, S_cover, S_white)

\* fit.go 50-63: the optional colour parameter
FitParseColor(fitMode, color) ==
  IF color \notin {S_black, S_white, S_transparent} THEN FitFail("fit-color")
  ELSE FitResult(TRUE, "", fitMode, color)

\* fit.go 38-49: the number of parameters and the mode
FitParseMode(parts, fitMode) ==
  IF Len(parts) > 2 THEN FitFail("fit-params")
  ELSE IF fitMode \notin {S_fill, S_cover} THEN FitFail("fit-mode")
  ELSE IF Len(parts) = 2 /\ fitMode # S_fill THEN FitFail("fit-color-mode")
  ELSE IF Len(parts) = 2 THEN FitParseColor(fitMode, TrimSpace(ToLower(parts[2])))
  ELSE FitResult(TRUE, "", fitMode, S_white)

FitParseParts(parts) == FitParseMode(parts, TrimSpace(ToLower(parts[1])))

\* FitOperation.Parse: [handled, err, op]
FitParse(filter) ==
  IF ~HasPrefix(filter, <<"f","i","t","(">>) THEN FitFail("")
  ELSE IF ~HasSuffix(filter, <<")">>) THEN FitFail("fit-paren")
  ELSE FitParseParts(Split(SubSeq(filter, 5, Len(filter) - 1), ","))

\* FitOperation.Validate
FitValidate(o) ==
  IF o.FillColor = S_transparent /\ o.Format \notin {S_png, S_webp, S_avif}
  THEN "transparent-format" ELSE ""

\* what CropOperation.Parse and PercentCropOperation.Parse return, [handled, err, op]
CropResult(name, handled, err, c) ==
  [handled |-> handled, err |-> err,
   op |-> [name |-> name, X1 |-> c[1], Y1 |-> c[2], X2 |-> c[3], Y2 |-> c[4]]]

CropFail(name, err) == CropResult(name, FALSE, err, <<0, 0, 0, 0>>)

\* the coordinate loop of the two Parse methods on one trimmed, non-empty part: a
\* leading '-' sets the sign, every other character must be a digit
CoordinateDigits(part) == IF part[1] = "-" THEN Tail(part) ELSE part
CoordinateIsNumber(part) ==
  \A j \in 1..Len(CoordinateDigits(part)) : CoordinateDigits(part)[j] \in Range(Digits)
Coordinate(part) ==
  IF part[1] = "-" THEN Int64Value(Int64Neg(DecLimbs(Tail(part), Int64Zero)))
  ELSE DecValue(part, 0)

\* the checks on the four coordinates; limit is the largest value accepted (NilInt:
\* no limit)
CoordinatesCheck(name, limit, c) ==
  IF \E i \in 1..4 : c[i] < 0 THEN CropFail(name, "coordinates-negative")
  ELSE IF limit # NilInt /\ \E i \in 1..4 : c[i] > limit THEN CropFail(name, "coordinates-range")
  ELSE IF c[3] <= c[1] THEN CropFail(name, "coordinates-x")
  ELSE IF c[4] <= c[2] THEN CropFail(name, "coordinates-y")
  ELSE CropResult(name, TRUE, "", c)

\* the split parts, trimmed: their number, the empty ones, the ones that are no number
CoordinatesRead(name, limit, parts) ==
  IF Len(parts) # 4 THEN CropFail(name, "coordinates-count")
  ELSE IF \E i \in 1..4 : parts[i] = <<>> THEN CropFail(name, "coordinates-empty")
  ELSE IF \E i \in 1..4 : ~CoordinateIsNumber(parts[i]) THEN CropFail(name, "coordinates-number")
  ELSE CoordinatesCheck(name, limit, [i \in 1..4 |-> Coordinate(parts[i])])

TrimAll(parts) == [i \in 1..Len(parts) |-> TrimSpace(parts[i])]

\* the body CropOperation.Parse and PercentCropOperation.Parse share once the prefix
\* has matched
CoordinatesParse(filter, pre, name, limit) ==
  IF ~HasSuffix(filter, <<")">>) THEN CropFail(name, "coordinates-paren")
  ELSE CoordinatesRead(name, limit,
                       TrimAll(Split(SubSeq(filter, Len(pre) + 1, Len(filter) - 1), ",")))

MaxPercent == 100

\* CropOperation.Parse: [handled, err, op]
CropParse(filter) ==
  IF ~HasPrefix(filter, <<"c","r","o","p","(">>) THEN CropFail("crop", "")
  ELSE CoordinatesParse(filter, <<"c","r","o","p","(">>, "crop", NilInt)

\* PercentCropOperation.Parse: [handled, err, op]
PcropParse(filter) ==
  IF ~HasPrefix(filter, <<"p","c","r","o","p","(">>) THEN CropFail("pcrop", "")
  ELSE CoordinatesParse(filter, <<"p","c","r","o","p","(">>, "pcrop", MaxPercent)

\* Registry.ParseFilter: the prototypes are tried in the order of their registration
\* (format, quality, fit, crop, pcrop); the first one that returns an error or
\* handles the filter decides. tryPrototype is one round of the loop: r is what the
\* prototype's Parse returned, rest what the remaining prototypes make of the filter.
tryPrototype(r, rest) ==
  IF r.err # "" THEN [err |-> r.err, op |-> r.op]
  ELSE IF r.handled THEN [err |-> "", op |-> r.op]
  ELSE rest

UnknownFilter == [err |-> "unknown-filter", op |-> [name |-> ""]]

ParseFilter(filter) ==
  tryPrototype(FormatParse(filter),
    tryPrototype(QualityParse(filter),
      tryPrototype(FitParse(filter),
        tryPrototype(CropParse(filter),
          tryPrototype(PcropParse(filter), UnknownFilter)))))

(***************************************************************************)
(* internal/parser/url.go                                                  *)
(***************************************************************************)
hasOperation(ops, name) == \E i \in 1..Len(ops) : ops[i].name = name

\* parseFilters: [err, ops], the parsed operations appended to ops. The loop over
\* the split filters: an empty one is skipped, r is what ParseFilter made of the
\* others.
RECURSIVE parseFilterList(_, _, _)
parseFilterParsed(filters, seen, ops, r) ==
  IF r.err # "" THEN [err |-> r.err, ops |-> ops]
  ELSE IF r.op.name \in seen THEN [err |-> "duplicate-operation", ops |-> ops]
  ELSE parseFilterList(Tail(filters), seen \cup {r.op.name}, Append(ops, r.op))

parseFilterItem(filters, seen, ops, filter) ==
  IF filter = <<>> THEN parseFilterList(Tail(filters), seen, ops)
  ELSE parseFilterParsed(filters, seen, ops, ParseFilter(filter))

parseFilterList(filters, seen, ops) ==
  IF filters = <<>> THEN [err |-> "", ops |-> ops]
  ELSE parseFilterItem(filters, seen, ops, TrimSpace(filters[1]))

parseFilters(filterString, ops) == parseFilterList(Split(filterString, ";"), {}, ops)

detectKnownFormat(path) ==
  LET ext == ToLower(path) IN
  IF HasSuffix(ext, <<".">> \o S_avif) THEN S_avif
  ELSE IF HasSuffix(ext, <<".">> \o S_webp) THEN S_webp
  ELSE IF HasSuffix(ext, <<".">> \o S_png) THEN S_png
  ELSE IF HasSuffix(ext, <<".">> \o S_jpg) \/ HasSuffix(ext, <<".">> \o S_jpeg) THEN S_jpeg
  ELSE <<>>

normalizeFormatName(format) ==
  LET f == ToLower(TrimSpace(format)) IN IF f = S_jpg THEN S_jpeg ELSE f

\* parseAliasSuffix: [err, sourcePath, aliasName, aliasFormat, hasAlias]
parseAliasSuffix(path) ==
  LET parts == Split(path, "/")
      n == Len(parts)
      aliasName == TrimSpace(parts[n])
      aliasFormat == detectKnownFormat(aliasName)
      sourcePath == Join(SubSeq(parts, 1, n - 2), "/")
      r(e, sp, an, af, ha) == [err |-> e, sourcePath |-> sp, aliasName |-> an,
                               aliasFormat |-> af, hasAlias |-> ha]
  IN IF n >= 3 /\ parts[n - 1] = S_as
     THEN IF aliasName = <<>> THEN r("alias-name", <<>>, <<>>, <<>>, FALSE)
          ELSE IF aliasFormat = <<>> THEN r("alias-extension", <<>>, <<>>, <<>>, FALSE)
          ELSE IF TrimSpace(sourcePath) = <<>> THEN r("alias-source", <<>>, <<>>, <<>>, FALSE)
          ELSE r("", sourcePath, aliasName, aliasFormat, TRUE)
     ELSE r("", path, <<>>, <<>>, FALSE)

isValidSignature(sig) ==
  /\ Len(sig) >= 8
  /\ Len(sig) <= 64
  /\ \A i \in 1..Len(sig) : sig[i] \in Range(HexLower) \cup Range(HexUpper)

extractSignaturePayloadFromRawPath(rawPath, signature) ==
  LET parts == SplitN(rawPath, "/", 2) IN
  IF Len(parts) < 2 THEN <<>>
  ELSE IF parts[1] = signature /\ signature # <<>> THEN <<"/">> \o parts[2]
  ELSE <<"/">> \o rawPath

\* getFormatOperation: index of the first format operation (0: none)
getFormatOperation(ops) ==
  IF hasOperation(ops, "format")
  THEN CHOOSE i \in 1..Len(ops) : ops[i].name = "format" /\ \A j \in 1..(i-1) : ops[j].name # "format"
  ELSE 0

\* the last operation of the given name, as the loop of applyFitModeToResize leaves
\* it in its local (0: nil)
lastOperation(ops, name) ==
  IF hasOperation(ops, name)
  THEN CHOOSE i \in 1..Len(ops) : ops[i].name = name /\ \A j \in (i+1)..Len(ops) : ops[j].name # name
  ELSE 0

\* applyFitModeToResize: the resize operation takes the fit operation's mode and fill
\* colour, the fit operation the format operation's format; resizeOp, fitOp and
\* formatOp are the positions the loop found (0: nil)
applyFitMode(ops, resizeOp, fitOp, formatOp) ==
  [i \in 1..Len(ops) |->
     IF i = resizeOp /\ fitOp # 0
     THEN [ops[i] EXCEPT !.Fit = ops[fitOp].Mode, !.FillColor = ops[fitOp].FillColor]
     ELSE IF i = fitOp /\ formatOp # 0
     THEN [ops[i] EXCEPT !.Format = ops[formatOp].Format]
     ELSE ops[i]]

applyFitModeToResize(ops) ==
  applyFitMode(ops, lastOperation(ops, "resize"), lastOperation(ops, "fit"),
               lastOperation(ops, "format"))

\* validateOperations: the first Validate error of the operations, in order
RECURSIVE validateOperations(_)
validateOperations(ops) ==
  IF ops = <<>> THEN ""
  ELSE LET e == IF ops[1].name = "resize" THEN ResizeValidate(ops[1])
                ELSE IF ops[1].name = "fit" THEN FitValidate(ops[1])
                ELSE ""
       IN IF e # "" THEN e ELSE validateOperations(Tail(ops))

\* a variant of validateCropExclusivity that lets crop and pcrop pass together
validateCropExclusivityLax(ops) == ""

validateCropExclusivity(ops) ==
  IF hasOperation(ops, "crop") /\ hasOperation(ops, "pcrop") THEN "crop-and-pcrop" ELSE ""

EmptyRequest ==
  [err |-> "", Path |-> <<>>, Alias |-> <<>>, AliasExtension |-> <<>>, HasAlias |-> FALSE,
   ProvidedSignature |-> <<>>, SignaturePayload |-> <<>>, FilterString |-> <<>>,
   RawURLPath |-> <<>>, Operations |-> <<>>]

ParseFail(e) == [EmptyRequest EXCEPT !.err = e]

\* ParseURL is written as a chain of stages, each handing the values the code has
\* computed so far to the next one, in the order of the code's statements.

\* url.go 147-187: the format and quality defaults, the alias/format conflict and
\* the validation hooks
ParseURLValidated(req, ops, err) ==
  IF err # "" THEN ParseFail(err)
  ELSE IF validateCropExclusivity(ops) # "" THEN ParseFail("crop-and-pcrop")
  ELSE [req EXCEPT !.Operations = ops]

ParseURLValidate(req, ops) == ParseURLValidated(req, ops, validateOperations(ops))

ParseURLFinish(req, ops) ==
  LET fmt == ops[getFormatOperation(ops)].Format
  IN IF req.HasAlias /\ req.AliasExtension # <<>> /\ normalizeFormatName(fmt) # req.AliasExtension
     THEN ParseFail("alias-conflict")
     ELSE ParseURLValidate(req, applyFitModeToResize(ops))

ParseURLQuality(req, ops) ==
  ParseURLFinish(req, IF hasOperation(ops, "quality") THEN ops
                      ELSE Append(ops, [name |-> "quality", Quality |-> DefaultQuality]))

ParseURLFormat(req, ops) ==
  ParseURLQuality(req,
    IF hasOperation(ops, "format") THEN ops
    ELSE Append(ops, [name |-> "format",
                      Format |-> IF req.HasAlias /\ req.AliasExtension # <<>>
                                 THEN req.AliasExtension
                                 ELSE DetectFromExtension(req.Path)]))

\* url.go 137-145: the alias suffix
ParseURLAlias(req, ops, alias) ==
  IF alias.err # "" THEN ParseFail(alias.err)
  ELSE ParseURLFormat([req EXCEPT !.Path = alias.sourcePath, !.Alias = alias.aliasName,
                                  !.AliasExtension = alias.aliasFormat,
                                  !.HasAlias = alias.hasAlias], ops)

\* url.go 113-135: the optional filters segment and the file path
ParseURLFilters(req, parts, filterIndex, resizeOp) ==
  IF Len(parts) >= filterIndex /\ HasPrefix(parts[filterIndex], S_filters)
  THEN LET filterString == TrimPrefix(parts[filterIndex], S_filters)
           filtered == parseFilters(filterString, <<resizeOp>>)
       IN IF Len(parts) <= filterIndex THEN ParseFail("missing-path")
          ELSE IF filtered.err # "" THEN ParseFail(filtered.err)
          ELSE ParseURLAlias([req EXCEPT !.FilterString = filterString], filtered.ops,
                 parseAliasSuffix(Join(SubSeq(parts, filterIndex + 1, Len(parts)), "/")))
  ELSE ParseURLAlias(req, <<resizeOp>>,
         parseAliasSuffix(Join(SubSeq(parts, filterIndex, Len(parts)), "/")))

\* url.go 95-111: the canonical payload and the size segment
ParseURLSize(req, parts, sizeIndex, size) ==
  IF req.SignaturePayload = <<>> THEN ParseFail("payload")
  ELSE IF size.err # "" THEN ParseFail(size.err)
  ELSE ParseURLFilters(req, parts, sizeIndex + 1, size.op)

\* url.go 74-93: the second segment is the signature iff it is not of the size form
ParseURLSignature(parts, RawURLPath) ==
  IF ~IsSizeFormat(parts[2])
  THEN IF Len(parts) < 4 THEN ParseFail("path-format")
       ELSE IF ~isValidSignature(parts[2]) THEN ParseFail("signature-format")
       ELSE ParseURLSize([EmptyRequest EXCEPT !.RawURLPath = RawURLPath,
                            !.ProvidedSignature = parts[2],
                            !.SignaturePayload =
                               extractSignaturePayloadFromRawPath(RawURLPath, parts[2])],
                         parts, 3, ParseSize(parts[3]))
  ELSE ParseURLSize([EmptyRequest EXCEPT !.RawURLPath = RawURLPath,
                       !.SignaturePayload =
                          extractSignaturePayloadFromRawPath(RawURLPath, <<>>)],
                    parts, 2, ParseSize(parts[2]))

\* url.go 40-72: the split into at most five parts, the prefix, the raw path.
\* strings.Index(rawPath, "thumbs/") is 0 once parts[0] is "thumbs".
ParseURLParts(path, parts, cut) ==
  IF Len(parts) < 3 THEN ParseFail("path-format")
  ELSE IF parts[1] # S_thumbs THEN ParseFail("prefix")
  ELSE ParseURLSignature(parts,
         SubSeq(path, 8, IF cut # 0 THEN cut - 1 ELSE Len(path)))

ParseURLTrimmed(path) == ParseURLParts(path, SplitN(path, "/", 5), IndexAny(path, {"?", "#"}))

\* ParseURL: the request, or err # "" (answered 400 by the handler)
ParseURL(urlPath) == ParseURLTrimmed(TrimPrefix(urlPath, <<"/">>))

(***************************************************************************)
(* internal/parser: Signature                                              *)
(***************************************************************************)
Code(c) == PosIn(Alphabet, c)

RECURSIVE Mix(_, _, _)
Mix(s, i, k) == IF i > Len(s) THEN 0 ELSE Code(s[i]) * (i + k) + Mix(s, i + 1, k)

\* hex.EncodeToString(HMAC-SHA256(key, msg))[:16]: the digest is represented by a
\* keyed mixing function of the two strings; what the model keeps of it is that it
\* is a function of key and message yielding 16 lower-case hex characters.
HmacSha256Hex16(key, msg) ==
  [i \in 1..16 |-> HexLower[((Mix(key, 1, i) * 7 + Mix(msg, 1, 2 * i + 1) + 3 * i) % 16) + 1]]

signPayloadPathNoKey(secretKey, payloadPath) == HmacSha256Hex16(<<>>, payloadPath)

signPayloadPath(secretKey, payloadPath) ==
  LET p == IF payloadPath = <<>> \/ payloadPath[1] # "/"
           THEN <<"/">> \o payloadPath ELSE payloadPath
  IN HmacSha256Hex16(secretKey, p)

VerifyAcceptsUnconfigured(secretKey, req) ==
  IF secretKey = <<>> THEN "ok"
  ELSE IF req.ProvidedSignature = <<>> THEN "required"
  ELSE IF req.ProvidedSignature # signPayloadPath(secretKey, req.SignaturePayload) THEN "invalid"
  ELSE "ok"

\* Signature.Verify: "ok", or the kind of the error returned
Verify(secretKey, req) ==
  IF secretKey = <<>>
  THEN IF req.ProvidedSignature # <<>> THEN "not-configured" ELSE "ok"
  ELSE IF req.ProvidedSignature = <<>> THEN "required"
  ELSE IF req.SignaturePayload = <<>> THEN "empty-payload"
  ELSE IF req.ProvidedSignature # signPayloadPath(secretKey, req.SignaturePayload) THEN "invalid"
  ELSE "ok"


(***************************************************************************)
(* Parked values: each development leaves the other developments' state    *)
(* at these values.                                                        *)
(***************************************************************************)
SigParked ==
  /\ sigSecret = <<>> /\ sigPath = <<>> /\ sigPc = "off"
  /\ sigReq = EmptyRequest /\ sigVerify = "none"

HandlerParked ==
  /\ semCap = 0 /\ pc = <<>> /\ url = <<>> /\ got = <<>> /\ role = <<>>
  /\ leaderOf = <<>> /\ outcome = <<>>
  /\ resp = <<>> /\ hist = <<>> /\ group = <<>> /\ processSem = 0
  /\ thumbMem = <<>> /\ thumbQueue = <<>> /\ thumbDisk = <<>> /\ transformCalls = <<>>

CsParked ==
  csMem = <<>> /\ csDisk = <<>> /\ csQueue = <<>> /\ csLastSet = <<>> /\ csGot = <<>>

PassParked == pass = <<>>

FsParked ==
  /\ fsDir = <<>> /\ fsInode = <<>> /\ fsWriter = <<>> /\ fsIndex = FALSE
  /\ fsQueue = 0 /\ fsPassed = {} /\ fsGot = <<>>

StParked ==
  /\ srcMem = <<>> /\ srcDisk = <<>> /\ srcQueue = <<>> /\ srcGot = <<>>
  /\ stWorkers = <<>> /\ stClose = <<>>

\* no request context is cancelled
NoneCancelled == cancelled = {}

\* ApplyAll has not run
NotApplied == applied = <<>>

\* the cleanup goroutine is not modelled
ScannerParked == scanner = <<>>

ExtParked ==
  PassParked /\ FsParked /\ StParked /\ NoneCancelled /\ NotApplied /\ ScannerParked

DcParked ==
  /\ dcPhase = "off" /\ dcScan = <<>> /\ dcFiles = <<>> /\ dcLru = <<>>
  /\ dcCurrentSize = 0 /\ dcDeleteQueue = <<>> /\ dcInline = {} /\ dcCleanupPos = 0
  /\ dcNow = 0 /\ dcPending = <<>> /\ dcCleared = FALSE /\ dcGot = <<>>

(***************************************************************************)
(* Signature development: a URL path is parsed and the resulting request   *)
(* verified, as ServeHTTP does on a cache miss.                            *)
(***************************************************************************)
Secrets == {<<>>, <<"k">>, <<"j">>}
SizeSegments == {<<"1","0","0","x","1","0","0">>, <<"x">>, <<"3","0","0","x">>}
SourcePaths == {<<"a",".","j","p","g">>, <<"d","/","b",".","p","n","g">>}

\* the payloads a client signs: /{size}/{path}
Payloads == {<<"/">> \o sz \o <<"/">> \o sp : sz \in SizeSegments, sp \in SourcePaths}

ToUpper(s) == [i \in 1..Len(s) |->
                IF s[i] \in Range(HexLower) THEN HexUpper[PosIn(HexLower, s[i])] ELSE s[i]]

\* signature segments a client may send for payload p: none, the token computed
\* with some secret, its upper-case spelling, a well-formed wrong token, a token
\* that is too short and one that is not hexadecimal
SignatureKinds ==
  ({"token", "upper"} \X Secrets) \cup ({"none", "wrong", "short", "nonhex"} \X {<<>>})

SignatureSegment(kind, p) ==
  CASE kind[1] = "token" -> HmacSha256Hex16(kind[2], p)
    [] kind[1] = "upper" -> ToUpper(HmacSha256Hex16(kind[2], p))
    [] kind[1] = "wrong" -> <<"d","e","a","d","b","e","e","f","d","e","a","d","b","e","e","f">>
    [] kind[1] = "short" -> <<"a","b","c","1","2","3","4">>
    [] kind[1] = "nonhex" -> <<"z","z","z","z","z","z","z","z","z","z">>
    [] OTHER -> <<>>

\* /thumbs/[{signature}/]{size}/{path}
SignedUrl(kind, p) ==
  IF kind[1] = "none" THEN <<"/">> \o S_thumbs \o p
  ELSE <<"/">> \o S_thumbs \o <<"/">> \o SignatureSegment(kind, p) \o p

MalformedUrls ==
  {<<"/">> \o S_thumbs \o <<"/","1","0","0","x","1","0","0">>,
   <<"/","o","t","h","e","r","/","1","0","0","x","1","0","0","/","a",".","j","p","g">>,
   <<"/">> \o S_thumbs \o <<"/","1","0","0","0","0","x","1","/","a",".","j","p","g">>}

SigInit ==
  /\ sigSecret \in Secrets
  /\ \/ \E kind \in SignatureKinds, p \in Payloads : sigPath = SignedUrl(kind, p)
     \/ sigPath \in MalformedUrls
  /\ sigPc = "start"
  /\ sigReq = EmptyRequest
  /\ sigVerify = "none"
  /\ HandlerParked /\ CsParked /\ DcParked /\ ExtParked

\* parser.ParseURL(r.URL.Path)
SigParse ==
  /\ sigPc = "start"
  /\ sigReq' = ParseURL(sigPath)
  /\ sigPc' = "parsed"
  /\ UNCHANGED <<sigSecret, sigPath, sigVerify, handlerVars, csVars, dcVars, extVars>>

\* h.signer.Verify(req), reached only when ParseURL returned no error
SigVerify ==
  /\ sigPc = "parsed"
  /\ sigReq.err = ""
  /\ sigVerify' = Verify(sigSecret, sigReq)
  /\ sigPc' = "verified"
  /\ UNCHANGED <<sigSecret, sigPath, sigReq, handlerVars, csVars, dcVars, extVars>>

SigNext == SigParse \/ SigVerify

SpecSig == SigInit /\ [][SigNext]_vars

\* hex(HMAC_SHA256(secret, signature_payload))[:16] of the verified request
ExpectedToken == HmacSha256Hex16(sigSecret, sigReq.SignaturePayload)

\* C5: Verify follows the four-case rule: with an empty secret it succeeds iff no
\* signature is provided; with a secret and no signature it fails; with a secret and
\* a signature it succeeds exactly when the signature equals the first 16 hex
\* characters of HMAC-SHA256(secret, signature_payload).
C5_FourCaseRule ==
  sigPc = "verified" =>
    /\ (sigSecret = <<>> /\ sigReq.ProvidedSignature = <<>>) => sigVerify = "ok"
    /\ (sigSecret = <<>> /\ sigReq.ProvidedSignature # <<>>) => sigVerify # "ok"
    /\ (sigSecret # <<>> /\ sigReq.ProvidedSignature = <<>>) => sigVerify # "ok"
    /\ (sigSecret # <<>> /\ sigReq.ProvidedSignature # <<>>) =>
         (sigVerify = "ok" <=> sigReq.ProvidedSignature = ExpectedToken)

\* C5 witness: a signed URL has been verified successfully under a configured secret
C5_Witness ==
  sigPc = "verified" /\ sigSecret # <<>> /\ sigReq.ProvidedSignature # <<>> /\ sigVerify = "ok"

\* C6 as stated: for every secret, Verify succeeds iff the provided signature equals
\* hex(HMAC_SHA256(secret, payload))[:16].
C6_Original ==
  sigPc = "verified" => (sigVerify = "ok" <=> sigReq.ProvidedSignature = ExpectedToken)

\* C6 amended: for every non-empty secret, Verify succeeds iff the provided signature
\* equals hex(HMAC_SHA256(secret, payload))[:16]; for the empty secret it succeeds iff
\* no signature is provided.
C6_VerifyIffToken ==
  sigPc = "verified" =>
    IF sigSecret # <<>>
    THEN sigVerify = "ok" <=> sigReq.ProvidedSignature = ExpectedToken
    ELSE sigVerify = "ok" <=> sigReq.ProvidedSignature = <<>>

\* C6 witness: under a configured secret, a well-formed token computed with another
\* key has been rejected
C6_Witness ==
  /\ sigPc = "verified" /\ sigSecret # <<>> /\ sigVerify = "invalid"
  /\ sigReq.ProvidedSignature = HmacSha256Hex16(<<>>, sigReq.SignaturePayload)

(***************************************************************************)
(* internal/handler/thumbnail.go: the request executor                     *)
(***************************************************************************)
\* a string as bytes: the position of each character in the alphabet
Bytes(s) == [i \in 1..Len(s) |-> Code(s[i])]

NoThumbnail == [Data |-> <<>>, ContentType |-> <<>>]

\* encodeThumbnailBinary: 4 bytes of content-type length (big-endian, uint32), the
\* content type, the image data
encodeThumbnailBinary(t) ==
  LET ctLen == Len(t.ContentType)   \* uint32(len(...)) of a length below 2^32
  IN <<(ctLen \div 16777216) % 256, (ctLen \div 65536) % 256,
       (ctLen \div 256) % 256, ctLen % 256>> \o t.ContentType \o t.Data

\* a decoder that reads the content-type length little-endian
decodeThumbnailLittleEndian(data) ==
  IF Len(data) < 4 THEN [err |-> TRUE, t |-> NoThumbnail]
  ELSE LET ctLen == data[4] * 16777216 + data[3] * 65536 + data[2] * 256 + data[1]
       IN IF Len(data) < 4 + ctLen THEN [err |-> TRUE, t |-> NoThumbnail]
          ELSE [err |-> FALSE,
                t |-> [Data |-> SubSeq(data, 4 + ctLen + 1, Len(data)),
                       ContentType |-> SubSeq(data, 5, 4 + ctLen)]]

\* decodeThumbnailBinary: [err, t]
decodeThumbnailBinary(data) ==
  IF Len(data) < 4 THEN [err |-> TRUE, t |-> NoThumbnail]
  ELSE LET ctLen == data[1] * 16777216 + data[2] * 65536 + data[3] * 256 + data[4]
       IN IF Len(data) < 4 + ctLen THEN [err |-> TRUE, t |-> NoThumbnail]
          ELSE [err |-> FALSE,
                t |-> [Data |-> SubSeq(data, 4 + ctLen + 1, Len(data)),
                       ContentType |-> SubSeq(data, 5, 4 + ctLen)]]

\* FormatOperation.Export: the content type of the exported image
ExportContentType(format) ==
  Bytes(<<"i","m","a","g","e","/">> \o (IF format = S_jpg THEN S_jpeg ELSE format))

\* ImageProcessor.CreateThumbnail on success: the image bytes are represented by the
\* requested dimensions (0 for an absent one), the content type is that of the
\* format operation
CreateThumbnail(req) ==
  LET r == req.Operations[1]
      f == req.Operations[getFormatOperation(req.Operations)]
  IN [Data |-> <<(IF r.Width = NilInt THEN 0 ELSE r.Width) % 256,
                 (IF r.Height = NilInt THEN 0 ELSE r.Height) % 256>>,
      ContentType |-> ExportContentType(f.Format)]

\* strconv.Atoi: [ok, val]
Atoi(s) ==
  LET neg == s # <<>> /\ s[1] = "-"
      digits == IF s # <<>> /\ s[1] \in {"-", "+"} THEN Tail(s) ELSE s
  IN IF digits = <<>> \/ \E i \in 1..Len(digits) : digits[i] \notin Range(Digits)
     THEN [ok |-> FALSE, val |-> 0]
     ELSE [ok |-> TRUE, val |-> IF neg THEN 0 - DecValue(digits, 0) ELSE DecValue(digits, 0)]

Min(a, b) == IF a < b THEN a ELSE b

\* NewThumbnailHandler: the capacity of processSem, from runtime.NumCPU() and the
\* value of VIPS_MAX_CONCURRENT (<<>>: unset)
NewThumbnailHandler(numCPU, override) ==
  LET maxConcurrent == Min(numCPU * 2, 32)
      a == Atoi(override)
  IN IF override # <<>> /\ a.ok /\ a.val > 0 THEN a.val ELSE maxConcurrent

\* MemoryCache.Set on the thumbnails memory tier: a key already stored is updated;
\* a new key is stored when the cache admits it and left out when Set returns
\* false ("buffer full or rejected")
MemorySet(mem, k, data, admitted) ==
  IF mem[k] # <<>> \/ admitted THEN [mem EXCEPT ![k] = data] ELSE mem

(***************************************************************************)
(* Handler development: NumRequests requests run ServeHTTP concurrently    *)
(* against a caching storage whose thumbnails memory tier, disk tier and   *)
(* async writer are enabled.                                                *)
(***************************************************************************)
NumRequests == 3
QueueSize == 1      \* capacity of thumbWriteQueue
NumCPU == 1         \* runtime.NumCPU()

Requests == 1..NumRequests

SignatureKey == <<"k">>
Overrides == {<<>>, <<"0">>, <<"1">>}

PayloadA == <<"/","1","0","0","x","1","0","0","/","a",".","j","p","g">>
PayloadB == <<"/","x","/","d","/","b",".","p","n","g">>

\* the URL paths requested: two correctly signed keys, a wrong signature and a
\* signature segment that is too short
Urls == <<SignedUrl(<<"token", SignatureKey>>, PayloadA),
          SignedUrl(<<"token", SignatureKey>>, PayloadB),
          SignedUrl(<<"wrong", <<>>>>, PayloadA),
          SignedUrl(<<"short", <<>>>>, PayloadA)>>

Keys == 1..Len(Urls)

\* parser.ParseURL(r.URL.Path) and h.signer.Verify(req) of each URL path
Plans == [k \in Keys |-> ParseURL(Urls[k])]
Verdicts == [k \in Keys |-> IF Plans[k].err = "" THEN Verify(SignatureKey, Plans[k]) ELSE "none"]

\* a cache file left on disk for the second key that does not decode: the content
\* type is truncated
CorruptEntry == <<0, 0, 0, 9, 1>>
CorruptKey == 2

\* the keys whose signature segment is not 8-64 hexadecimal characters
MalformedSignature == {k \in Keys : ~isValidSignature(SplitN(Urls[k], "/", 4)[3])}

NoOutcome == [err |-> FALSE, result |-> NoThumbnail]
NoResponse == [status |-> 0, xcache |-> "", body |-> <<>>, ctype |-> <<>>]
ErrorResponse(status) == [NoResponse EXCEPT !.status = status]
ThumbnailResponse(xcache, t) ==
  [status |-> 200, xcache |-> xcache, body |-> t.Data, ctype |-> t.ContentType]

HandlerInit ==
  /\ \E o \in Overrides : semCap = NewThumbnailHandler(NumCPU, o)
  /\ pc = [i \in Requests |-> "idle"]
  /\ url = [i \in Requests |-> 0]
  /\ got = [i \in Requests |-> <<>>]
  /\ role = [i \in Requests |-> "none"]
  /\ leaderOf = [i \in Requests |-> 0]
  /\ outcome = [i \in Requests |-> NoOutcome]
  /\ resp = [i \in Requests |-> NoResponse]
  /\ hist = [i \in Requests |-> {}]
  /\ group = [k \in Keys |-> 0]
  /\ processSem = 0
  /\ thumbMem = [k \in Keys |-> <<>>]
  /\ thumbQueue = <<>>
  /\ thumbDisk = [k \in Keys |-> IF k = CorruptKey THEN CorruptEntry ELSE <<>>]
  /\ transformCalls = [k \in Keys |-> 0]
  /\ SigParked /\ CsParked /\ DcParked /\ ExtParked

notHandlerVars == <<sigVars, csVars, dcVars, extVars>>

\* the thumbnail cache holds no entry for key k and no request for k has completed
Cold(k) ==
  /\ thumbMem[k] = <<>> /\ thumbDisk[k] = <<>>
  /\ \A j \in Requests : ~(url[j] = k /\ pc[j] = "done")

\* a request for URL k reaches ServeHTTP (requests are numbered in arrival order)
Arrive(i, k) ==
  /\ pc[i] = "idle"
  /\ \A j \in Requests : j < i => pc[j] # "idle"
  /\ url' = [url EXCEPT ![i] = k]
  /\ hist' = [hist EXCEPT ![i] = IF Cold(k) THEN {"cold"} ELSE {}]
  /\ pc' = [pc EXCEPT ![i] = "lookup"]
  /\ UNCHANGED <<semCap, got, role, leaderOf, outcome, resp, group, processSem,
                 thumbMem, thumbQueue, thumbDisk, transformCalls, notHandlerVars>>

\* ServeHTTP 403-435: GetThumbnail (memory, then disk with promotion to memory) and,
\* when the entry decodes, the HIT response; otherwise on to parsing
Lookup(i) ==
  /\ pc[i] = "lookup"
  /\ LET k == url[i]
         memHit == thumbMem[k] # <<>>
         diskHit == thumbDisk[k] # <<>>
         data == IF memHit THEN thumbMem[k] ELSE thumbDisk[k]
         d == decodeThumbnailBinary(data)
     IN /\ got' = [got EXCEPT ![i] = data]
        /\ IF ~memHit /\ diskHit
           THEN /\ \E admitted \in BOOLEAN :
                     thumbMem' = MemorySet(thumbMem, k, data, admitted)
                /\ hist' = [hist EXCEPT ![i] = @ \cup {"promoted"}]
           ELSE thumbMem' = thumbMem /\ hist' = hist
        /\ IF data # <<>> /\ ~d.err
           THEN /\ resp' = [resp EXCEPT ![i] = ThumbnailResponse("HIT", d.t)]
                /\ pc' = [pc EXCEPT ![i] = "done"]
           ELSE /\ resp' = resp
                /\ pc' = [pc EXCEPT ![i] = "parse"]
  /\ UNCHANGED <<semCap, url, role, leaderOf, outcome, group, processSem,
                 thumbQueue, thumbDisk, transformCalls, notHandlerVars>>

\* ServeHTTP 437-444: parser.ParseURL; an error is answered 400
Parse(i) ==
  /\ pc[i] = "parse"
  /\ hist' = [hist EXCEPT ![i] = @ \cup {"parsed"}]
  /\ IF Plans[url[i]].err # ""
     THEN /\ resp' = [resp EXCEPT ![i] = ErrorResponse(400)]
          /\ pc' = [pc EXCEPT ![i] = "done"]
     ELSE /\ resp' = resp
          /\ pc' = [pc EXCEPT ![i] = "verify"]
  /\ UNCHANGED <<semCap, url, got, role, leaderOf, outcome, group, processSem,
                 thumbMem, thumbQueue, thumbDisk, transformCalls, notHandlerVars>>

\* a verification step that answers 403 on failure
VerifyStepForbidden(i) ==
  /\ pc[i] = "verify"
  /\ hist' = [hist EXCEPT ![i] = @ \cup {"verified"}]
  /\ IF Verdicts[url[i]] # "ok"
     THEN /\ resp' = [resp EXCEPT ![i] = ErrorResponse(403)]
          /\ pc' = [pc EXCEPT ![i] = "done"]
     ELSE /\ resp' = resp
          /\ pc' = [pc EXCEPT ![i] = "do"]
  /\ UNCHANGED <<semCap, url, got, role, leaderOf, outcome, group, processSem,
                 thumbMem, thumbQueue, thumbDisk, transformCalls, notHandlerVars>>

\* a verification step that lets every parsed request through
VerifyStepLax(i) ==
  /\ pc[i] = "verify"
  /\ hist' = [hist EXCEPT ![i] = @ \cup {"verified"}]
  /\ resp' = resp
  /\ pc' = [pc EXCEPT ![i] = "do"]
  /\ UNCHANGED <<semCap, url, got, role, leaderOf, outcome, group, processSem,
                 thumbMem, thumbQueue, thumbDisk, transformCalls, notHandlerVars>>

\* ServeHTTP 459-466: h.signer.Verify; a failure is answered 404
VerifyStep(i) ==
  /\ pc[i] = "verify"
  /\ hist' = [hist EXCEPT ![i] = @ \cup {"verified"}]
  /\ IF Verdicts[url[i]] # "ok"
     THEN /\ resp' = [resp EXCEPT ![i] = ErrorResponse(404)]
          /\ pc' = [pc EXCEPT ![i] = "done"]
     ELSE /\ resp' = resp
          /\ pc' = [pc EXCEPT ![i] = "do"]
  /\ UNCHANGED <<semCap, url, got, role, leaderOf, outcome, group, processSem,
                 thumbMem, thumbQueue, thumbDisk, transformCalls, notHandlerVars>>

\* a singleflight.Do that starts a flight of its own whatever the group holds
DoAlone(i) ==
  /\ pc[i] = "do"
  /\ group' = [group EXCEPT ![url[i]] = i]
  /\ role' = [role EXCEPT ![i] = "leader"]
  /\ leaderOf' = [leaderOf EXCEPT ![i] = i]
  /\ pc' = [pc EXCEPT ![i] = "acquire"]
  /\ UNCHANGED <<semCap, url, got, outcome, resp, hist, processSem,
                 thumbMem, thumbQueue, thumbDisk, transformCalls, notHandlerVars>>

\* ServeHTTP 470: singleflight.Do(cacheKey, fn): join the flight in progress for
\* the key as a follower, or register a flight and run fn as its leader
Do(i) ==
  /\ pc[i] = "do"
  /\ IF group[url[i]] # 0
     THEN /\ role' = [role EXCEPT ![i] = "follower"]
          /\ leaderOf' = [leaderOf EXCEPT ![i] = group[url[i]]]
          /\ pc' = [pc EXCEPT ![i] = "wait"]
          /\ group' = group
     ELSE /\ role' = [role EXCEPT ![i] = "leader"]
          /\ leaderOf' = [leaderOf EXCEPT ![i] = i]
          /\ pc' = [pc EXCEPT ![i] = "acquire"]
          /\ group' = [group EXCEPT ![url[i]] = i]
  /\ UNCHANGED <<semCap, url, got, outcome, resp, hist, processSem,
                 thumbMem, thumbQueue, thumbDisk, transformCalls, notHandlerVars>>

\* a send on processSem that does not wait for room
AcquireUnbounded(i) ==
  /\ pc[i] = "acquire"
  /\ processSem' = processSem + 1
  /\ pc' = [pc EXCEPT ![i] = "fetch"]
  /\ UNCHANGED <<semCap, url, got, role, leaderOf, outcome, resp, hist, group,
                 thumbMem, thumbQueue, thumbDisk, transformCalls, notHandlerVars>>

\* ServeHTTP 472: h.processSem <- struct{}{} blocks while the channel is full
Acquire(i) ==
  /\ pc[i] = "acquire"
  /\ processSem < semCap
  /\ processSem' = processSem + 1
  /\ pc' = [pc EXCEPT ![i] = "fetch"]
  /\ UNCHANGED <<semCap, url, got, role, leaderOf, outcome, resp, hist, group,
                 thumbMem, thumbQueue, thumbDisk, transformCalls, notHandlerVars>>

\* a variant of Fetch whose error return leaves fn without the release of the slot
FetchKeepsSlot(i) ==
  /\ pc[i] = "fetch"
  /\ hist' = [hist EXCEPT ![i] = @ \cup {"fetched"}]
  /\ \E ok \in BOOLEAN :
       IF ok THEN pc' = [pc EXCEPT ![i] = "transform"] /\ outcome' = outcome
       ELSE /\ pc' = [pc EXCEPT ![i] = "finish"]
            /\ outcome' = [outcome EXCEPT ![i] = [err |-> TRUE, result |-> NoThumbnail]]
  /\ UNCHANGED <<semCap, url, got, role, leaderOf, resp, group, processSem,
                 thumbMem, thumbQueue, thumbDisk, transformCalls, notHandlerVars>>

\* ServeHTTP 476-480: store.GetObject succeeds, or fails and fn returns the error
Fetch(i) ==
  /\ pc[i] = "fetch"
  /\ hist' = [hist EXCEPT ![i] = @ \cup {"fetched"}]
  /\ \E ok \in BOOLEAN :
       IF ok THEN pc' = [pc EXCEPT ![i] = "transform"] /\ outcome' = outcome
       ELSE /\ pc' = [pc EXCEPT ![i] = "release"]
            /\ outcome' = [outcome EXCEPT ![i] = [err |-> TRUE, result |-> NoThumbnail]]
  /\ UNCHANGED <<semCap, url, got, role, leaderOf, resp, group, processSem,
                 thumbMem, thumbQueue, thumbDisk, transformCalls, notHandlerVars>>

\* ServeHTTP 483-492: h.processor.CreateThumbnail succeeds or fails
Transform(i) ==
  /\ pc[i] = "transform"
  /\ hist' = [hist EXCEPT ![i] = @ \cup {"transformed"}]
  /\ transformCalls' = [transformCalls EXCEPT ![url[i]] = @ + 1]
  /\ \E ok \in BOOLEAN :
       outcome' = [outcome EXCEPT ![i] =
                     IF ok THEN [err |-> FALSE, result |-> CreateThumbnail(Plans[url[i]])]
                     ELSE [err |-> TRUE, result |-> NoThumbnail]]
  /\ pc' = [pc EXCEPT ![i] = "release"]
  /\ UNCHANGED <<semCap, url, got, role, leaderOf, resp, group, processSem,
                 thumbMem, thumbQueue, thumbDisk, notHandlerVars>>

\* ServeHTTP 473: the deferred <-h.processSem as fn returns
Release(i) ==
  /\ pc[i] = "release"
  /\ processSem' = processSem - 1
  /\ pc' = [pc EXCEPT ![i] = "finish"]
  /\ UNCHANGED <<semCap, url, got, role, leaderOf, outcome, resp, hist, group,
                 thumbMem, thumbQueue, thumbDisk, transformCalls, notHandlerVars>>

\* singleflight: the flight ends, its key leaves the group and Do returns to the leader
Finish(i) ==
  /\ pc[i] = "finish"
  /\ group' = [group EXCEPT ![url[i]] = 0]
  /\ pc' = [pc EXCEPT ![i] = "store"]
  /\ UNCHANGED <<semCap, url, got, role, leaderOf, outcome, resp, hist, processSem,
                 thumbMem, thumbQueue, thumbDisk, transformCalls, notHandlerVars>>

\* singleflight: Do returns the flight's value and error to a follower once the
\* flight it joined has ended
Wake(i) ==
  /\ pc[i] = "wait"
  /\ pc[leaderOf[i]] \in {"store", "enqueue", "done"}
  /\ outcome' = [outcome EXCEPT ![i] = outcome[leaderOf[i]]]
  /\ pc' = [pc EXCEPT ![i] = "store"]
  /\ UNCHANGED <<semCap, url, got, role, leaderOf, resp, hist, group, processSem,
                 thumbMem, thumbQueue, thumbDisk, transformCalls, notHandlerVars>>

\* ServeHTTP 498-535: on success SetThumbnail of the encoded result and the MISS
\* response; on error the 500 response
Store(i) ==
  /\ pc[i] = "store"
  /\ IF outcome[i].err
     THEN /\ resp' = [resp EXCEPT ![i] = ErrorResponse(500)]
          /\ pc' = [pc EXCEPT ![i] = "done"]
          /\ UNCHANGED <<thumbMem, hist>>
     ELSE /\ \E admitted \in BOOLEAN :
               thumbMem' = MemorySet(thumbMem, url[i],
                                     encodeThumbnailBinary(outcome[i].result), admitted)
          /\ hist' = [hist EXCEPT ![i] = @ \cup {"memset"}]
          /\ resp' = [resp EXCEPT ![i] = ThumbnailResponse("MISS", outcome[i].result)]
          /\ pc' = [pc EXCEPT ![i] = "enqueue"]
  /\ UNCHANGED <<semCap, url, got, role, leaderOf, outcome, group, processSem,
                 thumbQueue, thumbDisk, transformCalls, notHandlerVars>>

\* ServeHTTP 540-548: SetThumbnailAsync, a send that is dropped when the queue is full
Enqueue(i) ==
  /\ pc[i] = "enqueue"
  /\ thumbQueue' = IF Len(thumbQueue) < QueueSize
                   THEN Append(thumbQueue, [key |-> url[i],
                                            data |-> encodeThumbnailBinary(outcome[i].result)])
                   ELSE thumbQueue
  /\ hist' = [hist EXCEPT ![i] = @ \cup {"enqueued"}]
  /\ pc' = [pc EXCEPT ![i] = "done"]
  /\ UNCHANGED <<semCap, url, got, role, leaderOf, outcome, resp, group, processSem,
                 thumbMem, thumbDisk, transformCalls, notHandlerVars>>

\* thumbWriter: a task leaves the queue and is written to the disk tier
ThumbWriter ==
  /\ thumbQueue # <<>>
  /\ thumbDisk' = [thumbDisk EXCEPT ![Head(thumbQueue).key] = Head(thumbQueue).data]
  /\ thumbQueue' = Tail(thumbQueue)
  /\ UNCHANGED <<semCap, pc, url, got, role, leaderOf, outcome, resp, hist, group,
                 processSem, thumbMem, transformCalls, notHandlerVars>>

\* the memory tier drops an entry (its TTL elapsed, or it was evicted by cost)
MemoryDrop(k) ==
  /\ thumbMem[k] # <<>>
  /\ thumbMem' = [thumbMem EXCEPT ![k] = <<>>]
  /\ UNCHANGED <<semCap, pc, url, got, role, leaderOf, outcome, resp, hist, group,
                 processSem, thumbQueue, thumbDisk, transformCalls, notHandlerVars>>

HandlerNext ==
  \/ \E i \in Requests, k \in Keys : Arrive(i, k)
  \/ \E i \in Requests : Lookup(i)
  \/ \E i \in Requests : Parse(i)
  \/ \E i \in Requests : VerifyStep(i)
  \/ \E i \in Requests : Do(i)
  \/ \E i \in Requests : Acquire(i)
  \/ \E i \in Requests : Fetch(i)
  \/ \E i \in Requests : Transform(i)
  \/ \E i \in Requests : Release(i)
  \/ \E i \in Requests : Finish(i)
  \/ \E i \in Requests : Wake(i)
  \/ \E i \in Requests : Store(i)
  \/ \E i \in Requests : Enqueue(i)
  \/ ThumbWriter
  \/ \E k \in Keys : MemoryDrop(k)

SpecHandler == HandlerInit /\ [][HandlerNext]_vars

\* the requests for key k so far all arrived while the cache held no entry for k and
\* before any of them had completed, and none of them was handed an error
ColdBatch(k) ==
  \A i \in Requests : url[i] = k => ("cold" \in hist[i] /\ ~outcome[i].err)

\* C1: for requests of one key that all arrive with a cold cache and before any of
\* them has completed, the transformer is invoked once in total, never a second time.
C1_TransformedOnce ==
  \A k \in Keys : ColdBatch(k) => transformCalls[k] <= 1

\* the singleflight function of request i is registered and has not yet ended
InFlight(i) == pc[i] \in {"acquire", "fetch", "transform", "release", "finish"}

\* Do has returned to request i
Returned(i) == role[i] # "none" /\ pc[i] \in {"store", "enqueue", "done"}

\* C2: within one key at most one flight (source fetch and transform) is in progress
\* at any instant, and a follower is handed exactly its leader's outcome, the same
\* thumbnail or the leader's error, without fetching or transforming itself; its
\* response carries the leader's bytes and content type, or is the 500 of the error.
C2_SharedFlight ==
  /\ \A i, j \in Requests : (InFlight(i) /\ InFlight(j) /\ url[i] = url[j]) => i = j
  /\ \A j \in Requests : (role[j] = "follower" /\ Returned(j)) =>
       /\ url[leaderOf[j]] = url[j] /\ role[leaderOf[j]] = "leader"
       /\ outcome[j] = outcome[leaderOf[j]]
       /\ hist[j] \cap {"fetched", "transformed"} = {}
       /\ pc[j] = "done" =>
            IF outcome[leaderOf[j]].err THEN resp[j] = ErrorResponse(500)
            ELSE resp[j] = ThumbnailResponse("MISS", outcome[leaderOf[j]].result)

\* C2 witness: a follower has answered with the thumbnail its leader produced
C2_Witness ==
  \E j \in Requests :
    /\ role[j] = "follower" /\ pc[j] = "done" /\ resp[j].status = 200
    /\ "transformed" \in hist[leaderOf[j]]
    /\ resp[j].body = outcome[leaderOf[j]].result.Data

\* request i holds a processing slot
Holding(i) == pc[i] \in {"fetch", "transform", "release"}

\* C3: the capacity of processSem is at least 1 and, at every instant, the requests
\* holding a processing slot (fetching the source or transforming) are as many as the
\* tokens in processSem and at most the capacity.
C3_ProcessingBound ==
  /\ semCap >= 1
  /\ processSem = Cardinality({i \in Requests : Holding(i)})
  /\ processSem <= semCap

\* C3 witness: every slot is taken and a leader of another key waits for one
C3_Witness ==
  /\ processSem = semCap
  /\ \E i, j \in Requests : pc[i] = "acquire" /\ Holding(j) /\ url[i] # url[j]

\* request i wrote nothing to the thumbnails memory tier and enqueued nothing
WroteNothing(i) == hist[i] \cap {"promoted", "memset", "enqueued"} = {}

\* C7: a request that missed the thumbnail cache is validated in a fixed order: a
\* parse error (a malformed signature segment included) is answered 400 before any
\* verification, a verification failure 404 before any fetch or transform, a fetch or
\* transform failure 500; in each case nothing is written to the memory tier or
\* enqueued for the disk tier. No other request is answered 400, 404 or 500.
C7_ValidationOrder ==
  \A i \in Requests : got[i] = <<>> =>
    /\ "verified" \in hist[i] => ("parsed" \in hist[i] /\ Plans[url[i]].err = "")
    /\ role[i] # "none" => ("verified" \in hist[i] /\ Verdicts[url[i]] = "ok")
    /\ hist[i] \cap {"fetched", "transformed"} # {} => role[i] = "leader"
    /\ ("parsed" \in hist[i] /\ Plans[url[i]].err # "") =>
         /\ pc[i] = "done" /\ resp[i] = ErrorResponse(400)
         /\ "verified" \notin hist[i] /\ role[i] = "none" /\ WroteNothing(i)
    /\ ("parsed" \in hist[i] /\ url[i] \in MalformedSignature) =>
         resp[i] = ErrorResponse(400)
    /\ ("verified" \in hist[i] /\ Verdicts[url[i]] # "ok") =>
         /\ pc[i] = "done" /\ resp[i] = ErrorResponse(404)
         /\ role[i] = "none" /\ WroteNothing(i)
    /\ (pc[i] = "done" /\ role[i] # "none" /\ outcome[i].err) =>
         resp[i] = ErrorResponse(500) /\ WroteNothing(i)
    /\ resp[i].status = 400 => Plans[url[i]].err # ""
    /\ resp[i].status = 404 => Verdicts[url[i]] \notin {"ok", "none"}
    /\ resp[i].status = 500 => (role[i] # "none" /\ outcome[i].err)
    /\ resp[i].status \in {0, 200, 400, 404, 500}

\* C7 witness: after cache misses a malformed signature was answered 400, a wrong
\* signature 404 and a failed transformation 500
C7_Witness ==
  /\ \E i \in Requests : got[i] = <<>> /\ resp[i].status = 400 /\ url[i] \in MalformedSignature
  /\ \E i \in Requests : got[i] = <<>> /\ resp[i].status = 404
  /\ \E i \in Requests : got[i] = <<>> /\ resp[i].status = 500 /\ "transformed" \in hist[i]

\* the thumbnail the handler produces for key k
Produced == [k \in Keys |-> IF Plans[k].err = "" THEN CreateThumbnail(Plans[k]) ELSE NoThumbnail]

\* C8: a request whose cache lookup returned a decodable entry is answered 200 with
\* X-Cache HIT and exactly the entry's image bytes and content type, which are those
\* the transformer produced for the key, without parsing, verifying, joining a
\* flight, fetching or transforming; every 200 produced through singleflight carries
\* X-Cache MISS; only decodable entries are answered HIT.
C8_HitPath ==
  \A i \in Requests :
    /\ (got[i] # <<>> /\ ~decodeThumbnailBinary(got[i]).err) =>
         /\ pc[i] = "done"
         /\ resp[i] = ThumbnailResponse("HIT", decodeThumbnailBinary(got[i]).t)
         /\ resp[i].body = Produced[url[i]].Data
         /\ resp[i].ctype = Produced[url[i]].ContentType
         /\ hist[i] \cap {"parsed", "verified", "fetched", "transformed", "memset", "enqueued"} = {}
         /\ role[i] = "none"
    /\ (role[i] # "none" /\ resp[i].status = 200) => resp[i].xcache = "MISS"
    /\ resp[i].xcache = "HIT" => got[i] # <<>>
    /\ "memset" \in hist[i] =>
         decodeThumbnailBinary(encodeThumbnailBinary(outcome[i].result)) =
           [err |-> FALSE, t |-> Produced[url[i]]]

\* C8 witness: a request was served from the disk tier's entry with X-Cache HIT while
\* the memory tier held nothing for its key
C8_Witness ==
  \E i \in Requests :
    /\ pc[i] = "done" /\ resp[i].xcache = "HIT" /\ "promoted" \in hist[i]
    /\ resp[i].body = Produced[url[i]].Data

(***************************************************************************)
(* Cached storage development: the thumbnails tier of CachedStorage with   *)
(* the memory tier, the disk tier and the async writer enabled.            *)
(***************************************************************************)
CsNumKeys == 2
CsQueueSize == 1

CsKeys == 1..CsNumKeys
\* two encoded thumbnails (empty content type, one byte of image data)
CsValues == {<<0, 0, 0, 0, 1>>, <<0, 0, 0, 0, 2>>}

NoSet == [v |-> <<>>, live |-> FALSE]
NoGet == [key |-> 0, found |-> FALSE, data |-> <<>>, expect |-> <<>>]

notCsVars == <<sigVars, handlerVars, dcVars, extVars>>

CsInit ==
  /\ csMem = [k \in CsKeys |-> <<>>]
  /\ csDisk = [k \in CsKeys |-> <<>>]
  /\ csQueue = <<>>
  /\ csLastSet = [k \in CsKeys |-> NoSet]
  /\ csGot = NoGet
  /\ SigParked /\ HandlerParked /\ DcParked /\ ExtParked

\* the memory cache evicts the entries of the keys in victims
MemoryEvict(mem, victims) == [k \in DOMAIN mem |-> IF k \in victims THEN <<>> ELSE mem[k]]

\* CachedStorage.SetThumbnail: MemoryCache.Set on the memory tier, its result
\* ignored; nil is returned. Admitting a new key may evict other keys by cost.
SetThumbnail(k, v) ==
  /\ \E admitted \in BOOLEAN, victims \in SUBSET (CsKeys \ {k}) :
       csMem' = IF csMem[k] = <<>> /\ admitted
                THEN MemoryEvict(MemorySet(csMem, k, v, admitted), victims)
                ELSE MemorySet(csMem, k, v, admitted)
  /\ csLastSet' = [csLastSet EXCEPT ![k] = [v |-> v, live |-> TRUE]]
  /\ UNCHANGED <<csDisk, csQueue, csGot, notCsVars>>

\* CachedStorage.GetThumbnail: the memory tier, then the disk tier with promotion
\* to memory; found = false when both miss
GetThumbnail(k) ==
  /\ LET memHit == csMem[k] # <<>>
         diskHit == csDisk[k] # <<>>
         data == IF memHit THEN csMem[k] ELSE csDisk[k]
     IN /\ csGot' = [key |-> k, found |-> memHit \/ diskHit, data |-> data,
                     expect |-> IF csLastSet[k].live THEN csLastSet[k].v ELSE <<>>]
        /\ IF ~memHit /\ diskHit
           THEN \E admitted \in BOOLEAN : csMem' = MemorySet(csMem, k, data, admitted)
           ELSE csMem' = csMem
  /\ csLastSet' = [csLastSet EXCEPT ![k].live = FALSE]
  /\ UNCHANGED <<csDisk, csQueue, notCsVars>>

\* CachedStorage.SetThumbnailAsync: a non-blocking send to the writer queue, dropped
\* when the queue is full; a different value for the key is another Set for it
SetThumbnailAsync(k, v) ==
  /\ csQueue' = IF Len(csQueue) < CsQueueSize
                THEN Append(csQueue, [key |-> k, data |-> v]) ELSE csQueue
  /\ csLastSet' = [csLastSet EXCEPT ![k].live = @ /\ csLastSet[k].v = v]
  /\ UNCHANGED <<csMem, csDisk, csGot, notCsVars>>

\* CachedStorage.thumbWriter: thumbDiskCache.Set of the task at the head of the queue
CsThumbWriter ==
  /\ csQueue # <<>>
  /\ csDisk' = [csDisk EXCEPT ![Head(csQueue).key] = Head(csQueue).data]
  /\ csQueue' = Tail(csQueue)
  /\ UNCHANGED <<csMem, csLastSet, csGot, notCsVars>>

\* CachedStorage.ClearCache: both tiers are emptied
ClearCache ==
  /\ csMem' = [k \in CsKeys |-> <<>>]
  /\ csDisk' = [k \in CsKeys |-> <<>>]
  /\ csLastSet' = [k \in CsKeys |-> [csLastSet[k] EXCEPT !.live = FALSE]]
  /\ UNCHANGED <<csQueue, csGot, notCsVars>>

\* the TTL of key k's memory entry elapses
CsExpire(k) ==
  /\ csMem' = [csMem EXCEPT ![k] = <<>>]
  /\ csLastSet' = [csLastSet EXCEPT ![k].live = FALSE]
  /\ UNCHANGED <<csDisk, csQueue, csGot, notCsVars>>

CsNext ==
  \/ \E k \in CsKeys, v \in CsValues : SetThumbnail(k, v)
  \/ \E k \in CsKeys : GetThumbnail(k)
  \/ \E k \in CsKeys, v \in CsValues : SetThumbnailAsync(k, v)
  \/ CsThumbWriter
  \/ ClearCache
  \/ \E k \in CsKeys : CsExpire(k)

SpecCached == CsInit /\ [][CsNext]_vars

\* C4: the GetThumbnail(k) that follows a returned SetThumbnail(k, v), with no TTL
\* expiry, Clear or other Set for k in between, returns found = true and data v.
C4_SetThenGet ==
  csGot.expect # <<>> => (csGot.found /\ csGot.data = csGot.expect)

(***************************************************************************)
(* internal/cache/disk_cache.go: the LRU index and its evict callback      *)
(*                                                                         *)
(* A cache file path {hash}_{unixTimestamp}.cache is the pair              *)
(* <<hash, timestamp>>; hash 0 stands for a file name that does not parse. *)
(* The index state threaded through the operators below is the record      *)
(* [lru, size, q, inl] of the LRU list (oldest first), currentSize, the    *)
(* delete queue and the paths handed to spawned deleteFile goroutines.     *)
(***************************************************************************)
DcMaxItems == 2         \* DiskCache.MaxItems
DcMaxSize == 3          \* DiskCache.MaxSize, in bytes
DcTTL == 1              \* DiskCache.TTL, in seconds
DcDeleteQueueCap == 1   \* capacity of deleteQueue
DcMaxTime == 3          \* the clock stops here
DcNumHashes == 2
DcNumWriters == 1       \* concurrent callers of Set (thumbWriter workers)

ScanBudget == 1024
RemoveBudget == 256
MissingCheckBudget == 256

Hashes == 1..DcNumHashes
Writers == 1..DcNumWriters
Sizes == {1, 2}

\* getFilePathWithExpiration
getFilePathWithExpiration(hash, expiresAt) == <<hash, expiresAt>>

\* parseCacheFilename: [err, hash, expiresAt]
parseCacheFilename(path) ==
  IF path[1] = 0 THEN [err |-> TRUE, hash |-> 0, expiresAt |-> 0]
  ELSE [err |-> FALSE, hash |-> path[1], expiresAt |-> path[2]]

\* now.After(t)
After(now, t) == now > t

\* position of hash in the LRU list (0: absent)
LruIndex(lru, hash) ==
  IF \E i \in 1..Len(lru) : lru[i].hash = hash
  THEN CHOOSE i \in 1..Len(lru) : lru[i].hash = hash
  ELSE 0

LruWithout(lru, i) == SubSeq(lru, 1, i - 1) \o SubSeq(lru, i + 1, Len(lru))

\* enqueueDelete: a non-blocking send; with the queue full a goroutine is spawned
enqueueDelete(ds, path) ==
  IF Len(ds.q) < DcDeleteQueueCap THEN [ds EXCEPT !.q = Append(@, path)]
  ELSE [ds EXCEPT !.inl = @ \cup {path}]

\* the evict callback of initLRU: currentSize.Add(-entry.size); enqueueDelete(entry.path)
OnEvict(ds, entry) == enqueueDelete([ds EXCEPT !.size = @ - entry.size], entry.path)

\* simplelru.Remove: the entry leaves the list and the callback runs
LruRemoveAt(ds, i) == OnEvict([ds EXCEPT !.lru = LruWithout(ds.lru, i)], ds.lru[i])
LruRemove(ds, hash) ==
  IF LruIndex(ds.lru, hash) = 0 THEN ds ELSE LruRemoveAt(ds, LruIndex(ds.lru, hash))

\* a removal that takes the most recently used entry
LruRemoveNewest(ds) == IF ds.lru = <<>> THEN ds ELSE LruRemoveAt(ds, Len(ds.lru))

\* simplelru.RemoveOldest
LruRemoveOldest(ds) == IF ds.lru = <<>> THEN ds ELSE LruRemoveAt(ds, 1)

\* simplelru.Add: a key already present has its value replaced and becomes the most
\* recent, without the callback; a new key is added and, above the capacity, the
\* oldest entry is removed with the callback
LruAddNew(ds) == IF Len(ds.lru) > DcMaxItems THEN LruRemoveOldest(ds) ELSE ds
LruAdd(ds, entry) ==
  IF LruIndex(ds.lru, entry.hash) # 0
  THEN [ds EXCEPT !.lru = Append(LruWithout(ds.lru, LruIndex(ds.lru, entry.hash)), entry)]
  ELSE LruAddNew([ds EXCEPT !.lru = Append(@, entry)])

\* simplelru.Get: the entry becomes the most recent
LruTouch(ds, i) == [ds EXCEPT !.lru = Append(LruWithout(ds.lru, i), ds.lru[i])]

\* sizeWatermarks: [high, low]
sizeWatermarksLow(high, low) ==
  IF low <= 0 \/ low >= high
  THEN [high |-> high, low |-> IF (high * 9) \div 10 <= 0 THEN high ELSE (high * 9) \div 10]
  ELSE [high |-> high, low |-> low]
sizeWatermarksHigh(maxSize, high, low) ==
  sizeWatermarksLow(IF high <= 0 THEN maxSize ELSE high, low)
sizeWatermarks(maxSize) ==
  IF maxSize <= 0 THEN [high |-> 0, low |-> 0]
  ELSE sizeWatermarksHigh(maxSize, (maxSize * 95) \div 100, (maxSize * 85) \div 100)

\* evictForSizeLocked: above the high watermark the oldest entries are removed until
\* currentSize is at most the low watermark, the list is empty or maxRemovals is reached
RECURSIVE evictLoop(_, _, _, _)
evictLoop(ds, low, maxRemovals, removed) ==
  IF ds.size <= low \/ (maxRemovals > 0 /\ removed >= maxRemovals) \/ ds.lru = <<>> THEN ds
  ELSE evictLoop(LruRemoveOldest(ds), low, maxRemovals, removed + 1)

evictForSizeWith(ds, marks, maxRemovals) ==
  IF marks.high <= 0 \/ ds.size <= marks.high THEN ds
  ELSE evictLoop(ds, marks.low, maxRemovals, 0)
evictForSizeLocked(ds, maxRemovals) == evictForSizeWith(ds, sizeWatermarks(DcMaxSize), maxRemovals)

(***************************************************************************)
(* Disk cache development: NewDiskCache loads the index from the files     *)
(* found on disk (clearOnStartup = false), then Set, Get, Delete, Clear    *)
(* and cleanup passes run while the delete worker unlinks evicted files.   *)
(***************************************************************************)
DcStart == 2   \* the clock at startup

Paths == (0..DcNumHashes) \X (0..(DcMaxTime + DcTTL))

\* the cache files a previous run may have left: an expired one, two unexpired ones
\* of the same key, one of another key and one whose name does not parse
StartupCandidates == {<<1, 0>>, <<1, 2>>, <<1, 3>>, <<2, 2>>, <<0, 0>>}
\* the directories the model starts from: empty, one file, two files of one key, the
\* files that the load removes or keeps apart, and all of them
StartupSets ==
  {{}, {<<1, 3>>}, {<<1, 2>>, <<1, 3>>}, {<<1, 0>>, <<2, 2>>, <<0, 0>>}, StartupCandidates}
StartupSize(path) == 1 + (path[2] % 2)

\* filepath.Walk visits the files of a directory in lexical order of their names
PathLess(a, b) == a[1] < b[1] \/ (a[1] = b[1] /\ a[2] < b[2])
RECURSIVE Walk(_)
Walk(F) ==
  IF F = {} THEN <<>>
  ELSE LET m == CHOOSE a \in F : \A b \in F : a = b \/ PathLess(a, b)
       IN <<m>> \o Walk(F \ {m})

NoEntry == [hash |-> 0, path |-> <<0, 0>>, size |-> 0, expiresAt |-> 0]

NoGot == [hash |-> 0, result |-> "none"]

notDcVars == <<sigVars, handlerVars, csVars, extVars>>

DcInit ==
  /\ dcPhase = "loading"
  /\ \E F \in StartupSets :
       /\ dcFiles = [a \in Paths |-> IF a \in F THEN StartupSize(a) ELSE 0]
       /\ dcScan = Walk(F)
  /\ dcLru = <<>>
  /\ dcCurrentSize = 0
  /\ dcDeleteQueue = <<>>
  /\ dcInline = {}
  /\ dcCleanupPos = 0
  /\ dcNow = DcStart
  /\ dcPending = [w \in Writers |-> NoEntry]
  /\ dcCleared = FALSE
  /\ dcGot = NoGot
  /\ SigParked /\ HandlerParked /\ CsParked /\ ExtParked

\* the index state before and after a step
IndexState == [lru |-> dcLru, size |-> dcCurrentSize, q |-> dcDeleteQueue, inl |-> dcInline]
IndexBecomes(ds) ==
  /\ dcLru' = ds.lru
  /\ dcCurrentSize' = ds.size
  /\ dcDeleteQueue' = ds.q
  /\ dcInline' = ds.inl

\* loadIndexFromDisk, one visited file: a name that does not parse or an expired
\* file is removed; otherwise currentSize.Add, lru.Add, evictForSizeLocked(2048)
LoadAdd(entry) ==
  evictForSizeLocked(LruAdd([IndexState EXCEPT !.size = @ + entry.size], entry), 2048)

LoadFile ==
  /\ dcPhase = "loading"
  /\ dcScan # <<>>
  /\ dcScan' = Tail(dcScan)
  /\ LET path == Head(dcScan)
         name == parseCacheFilename(path)
     IN IF dcFiles[path] = 0
        THEN UNCHANGED <<dcFiles, dcLru, dcCurrentSize, dcDeleteQueue, dcInline>>
        ELSE IF name.err \/ After(dcNow, name.expiresAt)
        THEN /\ dcFiles' = [dcFiles EXCEPT ![path] = 0]
             /\ UNCHANGED <<dcLru, dcCurrentSize, dcDeleteQueue, dcInline>>
        ELSE /\ IndexBecomes(LoadAdd([hash |-> name.hash, path |-> path,
                                      size |-> dcFiles[path], expiresAt |-> name.expiresAt]))
             /\ dcFiles' = dcFiles
  /\ UNCHANGED <<dcPhase, dcCleanupPos, dcNow, dcPending, dcCleared, notDcVars>>
  /\ dcGot' = NoGot

\* NewDiskCache returns once the walk is over
LoadDone ==
  /\ dcPhase = "loading"
  /\ dcScan = <<>>
  /\ dcPhase' = "running"
  /\ UNCHANGED <<dcScan, dcFiles, dcLru, dcCurrentSize, dcDeleteQueue, dcInline,
                 dcCleanupPos, dcNow, dcPending, dcCleared, notDcVars>>
  /\ dcGot' = NoGot

\* deleteWorker: deleteFile of the path at the head of the queue
DeleteWorker ==
  /\ dcDeleteQueue # <<>>
  /\ dcFiles' = [dcFiles EXCEPT ![Head(dcDeleteQueue)] = 0]
  /\ dcDeleteQueue' = Tail(dcDeleteQueue)
  /\ UNCHANGED <<dcPhase, dcScan, dcLru, dcCurrentSize, dcInline, dcCleanupPos, dcNow,
                 dcPending, dcCleared, notDcVars>>
  /\ dcGot' = NoGot

\* a deleteFile goroutine spawned by enqueueDelete
InlineDelete(path) ==
  /\ path \in dcInline
  /\ dcFiles' = [dcFiles EXCEPT ![path] = 0]
  /\ dcInline' = dcInline \ {path}
  /\ UNCHANGED <<dcPhase, dcScan, dcLru, dcCurrentSize, dcDeleteQueue, dcCleanupPos, dcNow,
                 dcPending, dcCleared, notDcVars>>
  /\ dcGot' = NoGot

\* Set, up to the rename: the file {hash}_{expiresAt}.cache is written
SetWrite(w, hash, size) ==
  /\ dcPhase = "running"
  /\ dcPending[w].hash = 0
  /\ LET expiresAt == dcNow + DcTTL
         path == getFilePathWithExpiration(hash, expiresAt)
     IN /\ dcFiles' = [dcFiles EXCEPT ![path] = size]
        /\ dcPending' = [dcPending EXCEPT ![w] = [hash |-> hash, path |-> path,
                                                  size |-> size, expiresAt |-> expiresAt]]
  /\ UNCHANGED <<dcPhase, dcScan, dcLru, dcCurrentSize, dcDeleteQueue, dcInline,
                 dcCleanupPos, dcNow, dcCleared, notDcVars>>
  /\ dcGot' = NoGot

\* Set, under the mutex: an existing entry of the key is removed, then
\* currentSize.Add, lru.Add, evictForSizeLocked(2048)
SetAdd(entry) ==
  evictForSizeLocked(
    LruAdd([LruRemove(IndexState, entry.hash) EXCEPT !.size = @ + entry.size], entry), 2048)

SetIndex(w) ==
  /\ dcPending[w].hash # 0
  /\ IndexBecomes(SetAdd(dcPending[w]))
  /\ dcPending' = [dcPending EXCEPT ![w] = NoEntry]
  /\ UNCHANGED <<dcPhase, dcScan, dcFiles, dcCleanupPos, dcNow, dcCleared, notDcVars>>
  /\ dcGot' = NoGot

\* Get: the entry becomes the most recent; an expired entry and an entry whose file
\* is gone are removed
\* a Get that removes an expired entry only
GetEntryKeepsMissing(ds, hash) ==
  IF After(dcNow, ds.lru[Len(ds.lru)].expiresAt) THEN LruRemove(ds, hash) ELSE ds

GetEntry(ds, hash) ==
  IF After(dcNow, ds.lru[Len(ds.lru)].expiresAt) \/ dcFiles[ds.lru[Len(ds.lru)].path] = 0
  THEN LruRemove(ds, hash) ELSE ds

\* how Get returns: ErrCacheNotFound for a key not in the index, for an expired entry
\* and for an entry whose file is gone; the data otherwise
GetResult(lru, hash) ==
  IF LruIndex(lru, hash) = 0 THEN "absent"
  ELSE IF After(dcNow, lru[LruIndex(lru, hash)].expiresAt) THEN "expired"
  ELSE IF dcFiles[lru[LruIndex(lru, hash)].path] = 0 THEN "nofile"
  ELSE "data"

Get(hash) ==
  /\ dcPhase = "running"
  /\ IF LruIndex(dcLru, hash) = 0 THEN IndexBecomes(IndexState)
     ELSE IndexBecomes(GetEntry(LruTouch(IndexState, LruIndex(dcLru, hash)), hash))
  /\ dcGot' = [hash |-> hash, result |-> GetResult(dcLru, hash)]
  /\ UNCHANGED <<dcPhase, dcScan, dcFiles, dcCleanupPos, dcNow, dcPending, dcCleared,
                 notDcVars>>

\* Delete
Delete(hash) ==
  /\ dcPhase = "running"
  /\ IndexBecomes(LruRemove(IndexState, hash))
  /\ UNCHANGED <<dcPhase, dcScan, dcFiles, dcCleanupPos, dcNow, dcPending, dcCleared,
                 notDcVars>>
  /\ dcGot' = NoGot

\* Clear: the directory is removed and recreated, currentSize and cleanupPos are
\* zeroed and a fresh LRU replaces the index
Clear ==
  /\ dcPhase = "running"
  /\ dcFiles' = [a \in Paths |-> 0]
  /\ dcCurrentSize' = 0
  /\ dcCleanupPos' = 0
  /\ dcLru' = <<>>
  /\ dcCleared' = TRUE
  /\ UNCHANGED <<dcPhase, dcScan, dcDeleteQueue, dcInline, dcNow, dcPending, notDcVars>>
  /\ dcGot' = NoGot

\* performCleanup, first pass under the mutex: from cleanupPos, at most ScanBudget
\* keys are visited; expired entries become candidates (the scan stops at
\* RemoveBudget of them), the others are checked for a missing file when asked
RECURSIVE scanLoop(_, _, _, _, _, _)
scanLoop(lru, start, i, scanCount, found, checkMissingFiles) ==
  IF i >= scanCount THEN found
  ELSE LET entry == lru[((start + i) % Len(lru)) + 1] IN
       IF After(dcNow, entry.expiresAt)
       THEN IF Len(found.expired) + 1 >= RemoveBudget
            THEN [found EXCEPT !.expired = Append(@, entry)]
            ELSE scanLoop(lru, start, i + 1, scanCount,
                          [found EXCEPT !.expired = Append(@, entry)], checkMissingFiles)
       ELSE scanLoop(lru, start, i + 1, scanCount,
                     IF checkMissingFiles /\ Len(found.existing) < MissingCheckBudget
                     THEN [found EXCEPT !.existing = Append(@, entry)] ELSE found,
                     checkMissingFiles)

\* second pass, outside the mutex: os.Stat of the existing candidates
RECURSIVE missingCandidates(_, _)
missingCandidates(existing, missing) ==
  IF existing = <<>> THEN missing
  ELSE IF dcFiles[existing[1].path] = 0
  THEN IF Len(missing) + 1 >= RemoveBudget THEN Append(missing, existing[1])
       ELSE missingCandidates(Tail(existing), Append(missing, existing[1]))
  ELSE missingCandidates(Tail(existing), missing)

\* third pass under the mutex: a candidate is removed when the index still holds its
\* path (and, for an expired one, the entry is still expired)
RECURSIVE removeCandidates(_, _, _)
removeCandidates(ds, candidates, expired) ==
  IF candidates = <<>> THEN ds
  ELSE LET i == LruIndex(ds.lru, candidates[1].hash) IN
       IF i # 0 /\ ds.lru[i].path = candidates[1].path
          /\ (expired => After(dcNow, ds.lru[i].expiresAt))
       THEN removeCandidates(LruRemove(ds, candidates[1].hash), Tail(candidates), expired)
       ELSE removeCandidates(ds, Tail(candidates), expired)

cleanupRemove(ds, found, checkMissingFiles) ==
  evictForSizeLocked(
    removeCandidates(removeCandidates(ds, found.expired, TRUE),
                     IF checkMissingFiles THEN missingCandidates(found.existing, <<>>)
                     ELSE <<>>, FALSE),
    1024)

ScanCount(keyCount) == IF keyCount < ScanBudget THEN keyCount ELSE ScanBudget

performCleanup(ds, start, checkMissingFiles) ==
  cleanupRemove(ds, scanLoop(ds.lru, start, 0, ScanCount(Len(ds.lru)),
                             [expired |-> <<>>, existing |-> <<>>], checkMissingFiles),
                checkMissingFiles)

\* cleanupExpired: one pass of performCleanup, with the missing-file check on the
\* passes that are due for it
Cleanup(checkMissingFiles) ==
  /\ dcPhase = "running"
  /\ IF dcLru = <<>>
     THEN /\ dcCleanupPos' = 0
          /\ IndexBecomes(evictForSizeLocked(IndexState, 1024))
     ELSE /\ dcCleanupPos' = ((dcCleanupPos % Len(dcLru)) + ScanCount(Len(dcLru))) % Len(dcLru)
          /\ IndexBecomes(performCleanup(IndexState, dcCleanupPos % Len(dcLru),
                                         checkMissingFiles))
  /\ UNCHANGED <<dcPhase, dcScan, dcFiles, dcNow, dcPending, dcCleared, notDcVars>>
  /\ dcGot' = NoGot

\* a second passes
Tick ==
  /\ dcNow < DcMaxTime
  /\ dcNow' = dcNow + 1
  /\ UNCHANGED <<dcPhase, dcScan, dcFiles, dcLru, dcCurrentSize, dcDeleteQueue, dcInline,
                 dcCleanupPos, dcPending, dcCleared, notDcVars>>
  /\ dcGot' = NoGot

DcNext ==
  \/ LoadFile
  \/ LoadDone
  \/ DeleteWorker
  \/ \E path \in Paths : InlineDelete(path)
  \/ \E w \in Writers, hash \in Hashes, size \in Sizes : SetWrite(w, hash, size)
  \/ \E w \in Writers : SetIndex(w)
  \/ \E hash \in Hashes : Get(hash)
  \/ \E hash \in Hashes : Delete(hash)
  \/ Clear
  \/ \E checkMissingFiles \in BOOLEAN : Cleanup(checkMissingFiles)
  \/ Tick

SpecDisk == DcInit /\ [][DcNext]_vars

\* the sum of size over the entries of the LRU index
RECURSIVE SumSizes(_)
SumSizes(lru) == IF lru = <<>> THEN 0 ELSE lru[1].size + SumSizes(Tail(lru))

\* C9: once the startup load is over, currentSize equals the sum of size over the
\* entries of the LRU index, whatever files were found on disk and whatever Set, Get,
\* Delete, Clear, cleanup passes and evictions have run.
C9_SizeIsSumOfEntries ==
  dcPhase = "running" => dcCurrentSize = SumSizes(dcLru)

\* the path is in the delete queue or handed to a deleteFile goroutine
ScheduledForUnlink(path) ==
  path \in dcInline \/ \E i \in 1..Len(dcDeleteQueue) : dcDeleteQueue[i] = path

\* C10: without any Clear, every entry of the index refers to a file that exists or
\* is scheduled for unlink, and with nothing left to unlink every entry's file exists.
C10_EntriesHaveFiles ==
  (dcPhase = "running" /\ ~dcCleared) =>
    \A i \in 1..Len(dcLru) :
      /\ dcFiles[dcLru[i].path] # 0 \/ ScheduledForUnlink(dcLru[i].path)
      /\ (dcDeleteQueue = <<>> /\ dcInline = {}) => dcFiles[dcLru[i].path] # 0

\* the entry the index holds for hash (NoEntry: none)
IndexEntry(lru, hash) == IF LruIndex(lru, hash) = 0 THEN NoEntry ELSE lru[LruIndex(lru, hash)]

\* C13: a Get returns data only for an entry of the index that has not expired and
\* whose file exists; a key that is absent or expired yields a miss, an expired entry
\* met by Get leaves the index, and so does an entry whose file is missing, with a miss.
C13_GetMissesExpired ==
  [][\A hash \in Hashes : Get(hash) =>
       /\ dcGot'.result = "data" =>
            /\ IndexEntry(dcLru, hash).hash = hash
            /\ ~(IndexEntry(dcLru, hash).expiresAt < dcNow)
            /\ dcFiles[IndexEntry(dcLru, hash).path] # 0
       /\ (IndexEntry(dcLru, hash).hash = 0 \/ IndexEntry(dcLru, hash).expiresAt < dcNow)
            => dcGot'.result # "data"
       /\ (IndexEntry(dcLru, hash).hash = hash /\ IndexEntry(dcLru, hash).expiresAt < dcNow)
            => IndexEntry(dcLru', hash).hash = 0
       /\ (IndexEntry(dcLru, hash).hash = hash /\ dcFiles[IndexEntry(dcLru, hash).path] = 0)
            => (IndexEntry(dcLru', hash).hash = 0 /\ dcGot'.result # "data")]_vars

\* a Get has met an expired entry and the key has left the index
C13_Witness ==
  /\ dcGot.hash # 0 /\ dcGot.result = "expired"
  /\ IndexEntry(dcLru, dcGot.hash).hash = 0

\* C28: with no Clear, a Get of a key whose entry a Set (or the startup load) has put
\* in the index and that has not expired returns the data, also when Set has been
\* called for the key several times in a row.
C28_GetAfterSet ==
  [][\A hash \in Hashes :
       (Get(hash) /\ ~dcCleared /\ IndexEntry(dcLru, hash).hash = hash
          /\ ~After(dcNow, IndexEntry(dcLru, hash).expiresAt))
         => dcGot'.result = "data"]_vars

(***************************************************************************)
(* One cleanup pass over a large index: performCleanup taken loop by loop  *)
(* (one step per iteration), so that its budgets of 1024 scanned keys, 256 *)
(* removals and 1024 size evictions are met at their real values. The pass *)
(* starts from an index a run of Sets leaves behind; no other operation    *)
(* runs during the pass.                                                   *)
(***************************************************************************)
CleanupMaxRemovals == 1024   \* dc.evictForSizeLocked(1024) at the end of the pass

\* the indexes a pass starts from: `small` one-byte entries, oldest first (the first
\* `expired` of them expired, the next `missing` of them without their file), then an
\* entry of `big` bytes when big > 0. The two large ones are what Set leaves when 3100
\* one-byte entries are followed by one large payload and its evictForSizeLocked(2048)
\* has removed its 2048 entries.
PassScenarios ==
  {[small |-> 1052, big |-> b, maxSize |-> 4000, expired |-> 0, missing |-> 0] :
      b \in {3000, 3790}}
  \cup {[small |-> n, big |-> b, maxSize |-> m, expired |-> e, missing |-> k] :
          n \in 0..3, b \in {0, 2}, m \in {0, 10}, e \in 0..1, k \in 0..1}

PassCount(sc) == sc.small + (IF sc.big > 0 THEN 1 ELSE 0)
PassExpiresAt(sc, i) == IF i <= sc.expired THEN DcStart - 1 ELSE DcStart + DcTTL
PassSize(sc, i) == IF i <= sc.small THEN 1 ELSE sc.big
PassIndex(sc) ==
  [i \in 1..PassCount(sc) |->
     [hash |-> i, path |-> <<i, PassExpiresAt(sc, i)>>, size |-> PassSize(sc, i),
      expiresAt |-> PassExpiresAt(sc, i)]]
PassFiles(sc) ==
  [a \in {<<i, PassExpiresAt(sc, i)>> : i \in 1..PassCount(sc)} |->
     IF a[1] > sc.expired /\ a[1] <= sc.expired + sc.missing THEN 0 ELSE PassSize(sc, a[1])]

PassTotal(sc) == sc.small + (IF sc.big > 0 THEN sc.big ELSE 0)

NoPass(maxSize) ==
  [pc |-> "idle", maxSize |-> maxSize, checkMissingFiles |-> FALSE, start |-> 0,
   scanCount |-> 0, i |-> 0, expired |-> <<>>, existing |-> <<>>, missing |-> <<>>,
   removed |-> 0, evicted |-> 0]

PassInit ==
  /\ \E sc \in PassScenarios :
       /\ dcLru = PassIndex(sc)
       /\ dcFiles = PassFiles(sc)
       /\ dcCurrentSize = PassTotal(sc)
       /\ pass = NoPass(sc.maxSize)
  /\ dcPhase = "running" /\ dcScan = <<>> /\ dcDeleteQueue = <<>> /\ dcInline = {}
  /\ dcCleanupPos = 0 /\ dcNow = DcStart /\ dcPending = <<>> /\ dcCleared = FALSE
  /\ dcGot = NoGot
  /\ SigParked /\ HandlerParked /\ CsParked /\ FsParked /\ StParked /\ NoneCancelled
  /\ NotApplied /\ ScannerParked

passFixed == <<dcPhase, dcScan, dcFiles, dcNow, dcPending, dcCleared, dcGot,
               sigVars, handlerVars, csVars, fsVars, stVars, cancelled, applied, scanner>>
indexVars == <<dcLru, dcCurrentSize, dcDeleteQueue, dcInline>>

\* performCleanup is entered: keys := dc.lru.Keys(); start and scanCount are computed,
\* or cleanupPos is zeroed for an empty index
PassStart(checkMissingFiles) ==
  /\ pass.pc = "idle"
  /\ IF Len(dcLru) > 0
     THEN /\ pass' = [pass EXCEPT !.pc = "scan", !.checkMissingFiles = checkMissingFiles,
                                  !.start = dcCleanupPos % Len(dcLru),
                                  !.scanCount = ScanCount(Len(dcLru))]
          /\ UNCHANGED dcCleanupPos
     ELSE /\ pass' = [pass EXCEPT !.pc = "stat", !.checkMissingFiles = checkMissingFiles]
          /\ dcCleanupPos' = 0
  /\ UNCHANGED <<indexVars, passFixed>>

\* one iteration of the scan loop, or its end (the loop condition fails or the
\* expired candidates reach removeBudget), where cleanupPos is advanced
PassScanEntry == dcLru[((pass.start + pass.i) % Len(dcLru)) + 1]
\* a candidate that does not carry the key of its entry
PassCandidateNoKey(entry) == [key |-> 0, path |-> entry.path]

PassCandidate(entry) == [key |-> entry.hash, path |-> entry.path]
PassScan ==
  /\ pass.pc = "scan"
  /\ IF pass.i >= pass.scanCount
     THEN /\ pass' = [pass EXCEPT !.pc = "stat"]
          /\ dcCleanupPos' = (pass.start + pass.scanCount) % Len(dcLru)
     ELSE IF After(dcNow, PassScanEntry.expiresAt)
     THEN IF Len(pass.expired) + 1 >= RemoveBudget
          THEN /\ pass' = [pass EXCEPT !.expired = Append(@, PassCandidate(PassScanEntry)),
                                       !.pc = "stat"]
               /\ dcCleanupPos' = (pass.start + pass.scanCount) % Len(dcLru)
          ELSE /\ pass' = [pass EXCEPT !.expired = Append(@, PassCandidate(PassScanEntry)),
                                       !.i = @ + 1]
               /\ UNCHANGED dcCleanupPos
     ELSE /\ pass' = [pass EXCEPT
                        !.existing = IF pass.checkMissingFiles /\ Len(@) < MissingCheckBudget
                                     THEN Append(@, PassCandidate(PassScanEntry)) ELSE @,
                        !.i = @ + 1]
          /\ UNCHANGED dcCleanupPos
  /\ UNCHANGED <<indexVars, passFixed>>

\* outside the mutex: os.Stat of one existing candidate, or the end of that loop
PassStat ==
  /\ pass.pc = "stat"
  /\ IF ~pass.checkMissingFiles \/ pass.existing = <<>>
     THEN pass' = [pass EXCEPT !.pc = "removeExpired"]
     ELSE IF dcFiles[Head(pass.existing).path] = 0
     THEN IF Len(pass.missing) + 1 >= RemoveBudget
          THEN pass' = [pass EXCEPT !.missing = Append(@, Head(pass.existing)),
                                    !.pc = "removeExpired"]
          ELSE pass' = [pass EXCEPT !.missing = Append(@, Head(pass.existing)),
                                    !.existing = Tail(@)]
     ELSE pass' = [pass EXCEPT !.existing = Tail(@)]
  /\ UNCHANGED <<indexVars, dcCleanupPos, passFixed>>

\* under the mutex again: one expired candidate is re-validated and removed
PassRemoveExpired ==
  /\ pass.pc = "removeExpired"
  /\ IF pass.expired = <<>>
     THEN /\ pass' = [pass EXCEPT !.pc = "removeMissing"]
          /\ UNCHANGED indexVars
     ELSE IF /\ IndexEntry(dcLru, Head(pass.expired).key).hash # 0
             /\ IndexEntry(dcLru, Head(pass.expired).key).path = Head(pass.expired).path
             /\ After(dcNow, IndexEntry(dcLru, Head(pass.expired).key).expiresAt)
     THEN /\ pass' = [pass EXCEPT !.expired = Tail(@), !.removed = @ + 1]
          /\ IndexBecomes(LruRemove(IndexState, Head(pass.expired).key))
     ELSE /\ pass' = [pass EXCEPT !.expired = Tail(@)]
          /\ UNCHANGED indexVars
  /\ UNCHANGED <<dcCleanupPos, passFixed>>

\* one missing candidate is re-validated and removed
PassRemoveMissing ==
  /\ pass.pc = "removeMissing"
  /\ IF pass.missing = <<>>
     THEN /\ pass' = [pass EXCEPT !.pc = "evict"]
          /\ UNCHANGED indexVars
     ELSE IF /\ IndexEntry(dcLru, Head(pass.missing).key).hash # 0
             /\ IndexEntry(dcLru, Head(pass.missing).key).path = Head(pass.missing).path
     THEN /\ pass' = [pass EXCEPT !.missing = Tail(@), !.removed = @ + 1]
          /\ IndexBecomes(LruRemove(IndexState, Head(pass.missing).key))
     ELSE /\ pass' = [pass EXCEPT !.missing = Tail(@)]
          /\ UNCHANGED indexVars
  /\ UNCHANGED <<dcCleanupPos, passFixed>>

\* evictForSizeLocked(1024) is entered: nothing to do at or below the high watermark
PassEvict ==
  /\ pass.pc = "evict"
  /\ pass' = [pass EXCEPT !.pc =
                IF sizeWatermarks(pass.maxSize).high <= 0
                   \/ dcCurrentSize <= sizeWatermarks(pass.maxSize).high
                THEN "done" ELSE "evictLoop"]
  /\ UNCHANGED <<indexVars, dcCleanupPos, passFixed>>

\* a size eviction that stops after one removal
PassEvictOnce ==
  /\ pass.pc = "evictLoop"
  /\ IF pass.evicted >= 1 \/ dcLru = <<>>
     THEN /\ pass' = [pass EXCEPT !.pc = "done"]
          /\ UNCHANGED indexVars
     ELSE /\ pass' = [pass EXCEPT !.evicted = @ + 1]
          /\ IndexBecomes(LruRemoveOldest(IndexState))
  /\ UNCHANGED <<dcCleanupPos, passFixed>>

\* one iteration of the eviction loop, or its end: currentSize is at most the low
\* watermark, maxRemovals entries have been removed, or the index is empty
PassEvictLoop ==
  /\ pass.pc = "evictLoop"
  /\ IF \/ dcCurrentSize <= sizeWatermarks(pass.maxSize).low
        \/ (CleanupMaxRemovals > 0 /\ pass.evicted >= CleanupMaxRemovals)
        \/ dcLru = <<>>
     THEN /\ pass' = [pass EXCEPT !.pc = "done"]
          /\ UNCHANGED indexVars
     ELSE /\ pass' = [pass EXCEPT !.evicted = @ + 1]
          /\ IndexBecomes(LruRemoveOldest(IndexState))
  /\ UNCHANGED <<dcCleanupPos, passFixed>>

PassNext ==
  \/ \E checkMissingFiles \in BOOLEAN : PassStart(checkMissingFiles)
  \/ PassScan
  \/ PassStat
  \/ PassRemoveExpired
  \/ PassRemoveMissing
  \/ PassEvict
  \/ PassEvictLoop

SpecPass == PassInit /\ [][PassNext]_vars

\* C11 as stated: with MaxSize > 0, a cleanup pass ends with currentSize at most the
\* high watermark.
C11_Original ==
  (pass.pc = "done" /\ pass.maxSize > 0) =>
     dcCurrentSize <= sizeWatermarks(pass.maxSize).high

\* C11: with MaxSize > 0, a cleanup pass ends with currentSize at most the high
\* watermark unless its size eviction has removed its 1024 entries.
C11_HighWatermark ==
  (pass.pc = "done" /\ pass.maxSize > 0) =>
     \/ dcCurrentSize <= sizeWatermarks(pass.maxSize).high
     \/ pass.evicted = CleanupMaxRemovals

\* a pass over an index above the high watermark has evicted entries and ended at or
\* below the low watermark, within its budget
C11_Witness ==
  /\ pass.pc = "done" /\ pass.maxSize > 0
  /\ pass.evicted > 0 /\ pass.evicted < CleanupMaxRemovals
  /\ dcCurrentSize <= sizeWatermarks(pass.maxSize).low

\* C30: the size eviction of a cleanup pass removes no entry when MaxSize is 0 or
\* currentSize is at most the high watermark; above it, every removal takes the
\* least recently used entry of the index, and the eviction ends only with
\* currentSize at most the low watermark, with an empty index or with its removal
\* budget used up.
C30_EvictsOldestToLow ==
  [][/\ (pass.pc = "evict" /\ (pass.maxSize = 0
                                \/ dcCurrentSize <= sizeWatermarks(pass.maxSize).high))
          => (pass'.pc = "done" /\ dcLru' = dcLru /\ dcCurrentSize' = dcCurrentSize)
     /\ (pass.pc = "evict" /\ pass.maxSize > 0
           /\ dcCurrentSize > sizeWatermarks(pass.maxSize).high)
          => (pass'.pc = "evictLoop" /\ dcLru' = dcLru)
     /\ (pass.pc = "evictLoop" /\ dcLru' # dcLru)
          => (dcLru' = Tail(dcLru) /\ dcCurrentSize' = dcCurrentSize - Head(dcLru).size
              /\ pass'.evicted = pass.evicted + 1)
     /\ (pass.pc = "evictLoop" /\ pass'.pc = "done")
          => \/ dcCurrentSize <= sizeWatermarks(pass.maxSize).low
             \/ dcLru = <<>>
             \/ pass.evicted >= CleanupMaxRemovals
     /\ pass.pc = "done" => dcLru' = dcLru]_vars

\* C30 witness: a size eviction has removed several entries, oldest first, and ended
\* at the low watermark with entries left and budget to spare
C30_Witness ==
  /\ pass.pc = "done" /\ pass.evicted >= 2 /\ pass.evicted < CleanupMaxRemovals
  /\ dcLru # <<>> /\ dcLru[1].hash = pass.evicted + 1
  /\ dcCurrentSize <= sizeWatermarks(pass.maxSize).low
  /\ dcCurrentSize + 1 > sizeWatermarks(pass.maxSize).low

(***************************************************************************)
(* Concurrent Sets of one key within one second: every one of them writes  *)
(* {path}.tmp with os.WriteFile (open with O_TRUNC, write, close) and      *)
(* renames it to the same {path}, whose entry Get then reads.              *)
(***************************************************************************)
FsNumWriters == 2
FsMaxSets == 2      \* Set calls per writer
FsWriters == 1..FsNumWriters
FsPayloads == {<<1, 1, 1>>, <<2, 2>>}
FsInodes == 1..(FsNumWriters + 2)

FsIdle(sets) == [pc |-> "idle", data |-> <<>>, fd |-> 0, sets |-> sets]

FsInit ==
  /\ fsDir = [tmp |-> 0, final |-> 0]
  /\ fsInode = [n \in FsInodes |-> <<>>]
  /\ fsWriter = [w \in FsWriters |-> FsIdle(0)]
  /\ fsIndex = FALSE
  /\ fsQueue = 0
  /\ fsPassed = {}
  /\ fsGot = [result |-> "none", data |-> <<>>]
  /\ SigParked /\ HandlerParked /\ CsParked /\ DcParked /\ PassParked /\ StParked
  /\ NoneCancelled /\ NotApplied /\ ScannerParked

notFsVars ==
  <<sigVars, handlerVars, csVars, dcVars, pass, stVars, cancelled, applied, scanner>>

\* an inode is in use while a name or an open file refers to it
FsInUse(n) ==
  \/ fsDir.tmp = n \/ fsDir.final = n
  \/ \E w \in FsWriters : fsWriter[w].fd = n
FsFreeInode == CHOOSE n \in FsInodes : ~FsInUse(n) /\ \A k \in FsInodes : k < n => FsInUse(k)

\* Set is called with a payload: the path and the temporary path are computed
FsSet(w, data) ==
  /\ fsWriter[w].pc = "idle"
  /\ fsWriter[w].sets < FsMaxSets
  /\ fsWriter' = [fsWriter EXCEPT ![w] = [pc |-> "open", data |-> data, fd |-> 0,
                                          sets |-> fsWriter[w].sets + 1]]
  /\ fsPassed' = fsPassed \cup {data}
  /\ UNCHANGED <<fsDir, fsInode, fsIndex, fsQueue, fsGot, notFsVars>>

\* os.WriteFile opens tmpPath with O_WRONLY|O_CREATE|O_TRUNC: an existing file is
\* truncated, otherwise a new one is created
FsOpen(w) ==
  /\ fsWriter[w].pc = "open"
  /\ IF fsDir.tmp # 0
     THEN /\ fsWriter' = [fsWriter EXCEPT ![w].pc = "write", ![w].fd = fsDir.tmp]
          /\ fsInode' = [fsInode EXCEPT ![fsDir.tmp] = <<>>]
          /\ UNCHANGED fsDir
     ELSE /\ fsWriter' = [fsWriter EXCEPT ![w].pc = "write", ![w].fd = FsFreeInode]
          /\ fsInode' = [fsInode EXCEPT ![FsFreeInode] = <<>>]
          /\ fsDir' = [fsDir EXCEPT !.tmp = FsFreeInode]
  /\ UNCHANGED <<fsIndex, fsQueue, fsPassed, fsGot, notFsVars>>

\* the payload is written at offset 0 of the open file, which is then closed
FsOverwrite(content, data) == data \o SubSeq(content, Len(data) + 1, Len(content))
FsWrite(w) ==
  /\ fsWriter[w].pc = "write"
  /\ fsInode' = [fsInode EXCEPT ![fsWriter[w].fd] = FsOverwrite(@, fsWriter[w].data)]
  /\ fsWriter' = [fsWriter EXCEPT ![w].pc = "rename", ![w].fd = 0]
  /\ UNCHANGED <<fsDir, fsIndex, fsQueue, fsPassed, fsGot, notFsVars>>

\* os.MkdirAll fails, or os.WriteFile cannot open tmpPath: Set returns the error
FsOpenFail(w) ==
  /\ fsWriter[w].pc = "open"
  /\ fsWriter' = [fsWriter EXCEPT ![w] = FsIdle(fsWriter[w].sets)]
  /\ UNCHANGED <<fsDir, fsInode, fsIndex, fsQueue, fsPassed, fsGot, notFsVars>>

\* os.WriteFile fails in its write (a full disk, an I/O error): some prefix of the
\* payload is in the file, the file is closed and Set returns the error
FsWriteFail(w) ==
  /\ fsWriter[w].pc = "write"
  /\ \E n \in 0..(Len(fsWriter[w].data) - 1) :
       fsInode' = [fsInode EXCEPT ![fsWriter[w].fd] =
                     FsOverwrite(@, SubSeq(fsWriter[w].data, 1, n))]
  /\ fsWriter' = [fsWriter EXCEPT ![w] = FsIdle(fsWriter[w].sets)]
  /\ UNCHANGED <<fsDir, fsIndex, fsQueue, fsPassed, fsGot, notFsVars>>

\* os.Rename fails with tmpPath in place: Set removes tmpPath and returns the error
FsRenameFail(w) ==
  /\ fsWriter[w].pc = "rename"
  /\ fsDir.tmp # 0
  /\ fsDir' = [fsDir EXCEPT !.tmp = 0]
  /\ fsWriter' = [fsWriter EXCEPT ![w] = FsIdle(fsWriter[w].sets)]
  /\ UNCHANGED <<fsInode, fsIndex, fsQueue, fsPassed, fsGot, notFsVars>>

\* os.Rename(tmpPath, filePath); when tmpPath is gone Set removes it and returns the error
FsRename(w) ==
  /\ fsWriter[w].pc = "rename"
  /\ IF fsDir.tmp # 0
     THEN /\ fsDir' = [tmp |-> 0, final |-> fsDir.tmp]
          /\ fsWriter' = [fsWriter EXCEPT ![w].pc = "index"]
     ELSE /\ fsWriter' = [fsWriter EXCEPT ![w] = FsIdle(fsWriter[w].sets)]
          /\ UNCHANGED fsDir
  /\ UNCHANGED <<fsInode, fsIndex, fsQueue, fsPassed, fsGot, notFsVars>>

\* Set under the mutex: an existing entry is removed (its path goes to the delete
\* queue) and the new entry is added
FsSetIndex(w) ==
  /\ fsWriter[w].pc = "index"
  /\ fsQueue' = IF fsIndex THEN fsQueue + 1 ELSE fsQueue
  /\ fsIndex' = TRUE
  /\ fsWriter' = [fsWriter EXCEPT ![w] = FsIdle(fsWriter[w].sets)]
  /\ UNCHANGED <<fsDir, fsInode, fsPassed, fsGot, notFsVars>>

\* deleteWorker unlinks the path
FsDeleteWorker ==
  /\ fsQueue > 0
  /\ fsQueue' = fsQueue - 1
  /\ fsDir' = [fsDir EXCEPT !.final = 0]
  /\ UNCHANGED <<fsInode, fsWriter, fsIndex, fsPassed, fsGot, notFsVars>>

\* Get: a key in the index has its file read; a missing file removes the entry
FsGet ==
  /\ IF ~fsIndex
     THEN /\ fsGot' = [result |-> "absent", data |-> <<>>]
          /\ UNCHANGED fsIndex
     ELSE IF fsDir.final = 0
     THEN /\ fsGot' = [result |-> "nofile", data |-> <<>>]
          /\ fsIndex' = FALSE
     ELSE /\ fsGot' = [result |-> "data", data |-> fsInode[fsDir.final]]
          /\ UNCHANGED fsIndex
  /\ UNCHANGED <<fsDir, fsInode, fsWriter, fsQueue, fsPassed, notFsVars>>

FsNext ==
  \/ \E w \in FsWriters, data \in FsPayloads : FsSet(w, data)
  \/ \E w \in FsWriters : FsOpen(w)
  \/ \E w \in FsWriters : FsWrite(w)
  \/ \E w \in FsWriters : FsOpenFail(w)
  \/ \E w \in FsWriters : FsWriteFail(w)
  \/ \E w \in FsWriters : FsRename(w)
  \/ \E w \in FsWriters : FsRenameFail(w)
  \/ \E w \in FsWriters : FsSetIndex(w)
  \/ FsDeleteWorker
  \/ FsGet

SpecFiles == FsInit /\ [][FsNext]_vars

\* C12: a Get that returns data returns a complete payload passed to some Set of the
\* key, whatever the interleaving with concurrent Sets of that key.
C12_CompletePayload ==
  fsGot.result = "data" => fsGot.data \in fsPassed

\* ---------------------------------------------------------------------------
\* Cached storage: the sources tier, the two write queues and Close
\* (internal/storage/cached.go). The thumbnails memory and disk tiers and the
\* thumbnail queue are the variables of the cached-storage development above.
\* ---------------------------------------------------------------------------

StNumWorkers == 2
StQueueSize == 1

StTiers == {"source", "thumb"}

\* the bytes the backing store holds for a key
StObject(k) == <<k, k>>

NoObject ==
  [key |-> 0, memory |-> "none", disk |-> "none", backing |-> "none",
   set |-> "none", queued |-> "none", err |-> FALSE, data |-> <<>>]

StoreInit ==
  /\ csMem = [k \in CsKeys |-> <<>>]
  /\ csDisk = [k \in CsKeys |-> <<>>]
  /\ csQueue = <<>>
  /\ csLastSet = [k \in CsKeys |-> NoSet]
  /\ csGot = NoGet
  /\ srcMem = [k \in CsKeys |-> <<>>]
  /\ srcDisk = [k \in CsKeys |-> <<>>]
  /\ srcQueue = <<>>
  /\ srcGot = NoObject
  /\ stWorkers = [tier \in StTiers |-> StNumWorkers]
  /\ stClose = [pc |-> "open", tasks |-> {}, applied |-> {}]
  /\ SigParked /\ HandlerParked /\ DcParked /\ PassParked /\ FsParked /\ NoneCancelled
  /\ NotApplied /\ ScannerParked

notStVars ==
  <<sigVars, handlerVars, dcVars, pass, fsVars, cancelled, applied, scanner>>

\* a queued task, tagged with the queue it waits in
StTask(tier, task) == [tier |-> tier, key |-> task.key, data |-> task.data]

StQueued(tier, queue) == {StTask(tier, queue[n]) : n \in 1..Len(queue)}

\* a variant of SetSourceAsync that sends on the channel without a default case
SetSourceAsyncAlways(queue, k, data) == Append(queue, [key |-> k, data |-> data])

\* CachedStorage.SetSourceAsync: a non-blocking send of the task; the write is
\* dropped when the queue is full
SetSourceAsync(queue, k, data) ==
  IF Len(queue) < StQueueSize THEN Append(queue, [key |-> k, data |-> data]) ELSE queue

\* GetObject, layer 1: the source memory cache has the key
GetObjectMemory(k) ==
  /\ srcMem[k] # <<>>
  /\ srcGot' = [NoObject EXCEPT !.key = k, !.memory = "hit", !.data = srcMem[k]]
  /\ UNCHANGED <<srcMem, srcQueue>>

\* GetObject, layer 2: the source disk cache returns the data, which is promoted
\* to the memory cache (the memory cache may reject the Set)
GetObjectDisk(k) ==
  /\ srcMem[k] = <<>>
  /\ srcDisk[k] # <<>>
  /\ \E admitted \in BOOLEAN :
       /\ srcMem' = MemorySet(srcMem, k, srcDisk[k], admitted)
       /\ srcGot' = [NoObject EXCEPT !.key = k, !.memory = "miss", !.disk = "hit",
                                     !.set = IF admitted THEN "admitted" ELSE "rejected",
                                     !.data = srcDisk[k]]
  /\ UNCHANGED srcQueue

\* a variant of layer 3 that writes the memory cache and queues the disk write
\* before it looks at the error of the backing store
GetObjectBackingEager(k, diskRead, answer) ==
  \E admitted \in BOOLEAN :
    /\ srcMem' = MemorySet(srcMem, k, StObject(k), admitted)
    /\ srcQueue' = SetSourceAsync(srcQueue, k, StObject(k))
    /\ srcGot' = [NoObject EXCEPT !.key = k, !.memory = "miss", !.disk = diskRead,
                     !.backing = answer, !.err = answer # "ok",
                     !.set = IF admitted THEN "admitted" ELSE "rejected",
                     !.queued = IF Len(srcQueue) < StQueueSize THEN "appended" ELSE "dropped",
                     !.data = IF answer = "ok" THEN StObject(k) ELSE <<>>]

\* GetObject, layer 3: the backing store is asked; its error is returned as it
\* is; on success the memory cache is Set and the disk write is queued
GetObjectBacking(k, diskRead, answer) ==
  IF answer = "ok"
  THEN \E admitted \in BOOLEAN :
         /\ srcMem' = MemorySet(srcMem, k, StObject(k), admitted)
         /\ srcQueue' = SetSourceAsync(srcQueue, k, StObject(k))
         /\ srcGot' = [NoObject EXCEPT !.key = k, !.memory = "miss", !.disk = diskRead,
                          !.backing = "ok",
                          !.set = IF admitted THEN "admitted" ELSE "rejected",
                          !.queued = IF Len(srcQueue) < StQueueSize
                                     THEN "appended" ELSE "dropped",
                          !.data = StObject(k)]
  ELSE /\ srcGot' = [NoObject EXCEPT !.key = k, !.memory = "miss", !.disk = diskRead,
                        !.backing = answer, !.err = TRUE]
       /\ UNCHANGED <<srcMem, srcQueue>>

\* CachedStorage.GetObject with both source tiers enabled. A disk-cache Get
\* that returns an error (absent, expired, unreadable) is a miss.
GetObject(k) ==
  /\ stClose.pc = "open"
  /\ \/ GetObjectMemory(k)
     \/ GetObjectDisk(k)
     \/ /\ srcMem[k] = <<>>
        /\ \E diskRead \in (IF srcDisk[k] = <<>> THEN {"miss"} ELSE {"error"}),
              answer \in {"ok", "notfound", "failed"} :
             GetObjectBacking(k, diskRead, answer)
  /\ UNCHANGED <<srcDisk, stWorkers, stClose, csVars, notStVars>>

\* CachedStorage.SetThumbnailAsync, called while the storage is open
StSetThumbnailAsync(k, v) ==
  /\ stClose.pc = "open"
  /\ SetThumbnailAsync(k, v)

\* the queue a tier's workers receive from is closed
StQueueClosed(tier) ==
  IF tier = "source" THEN stClose.pc # "open"
  ELSE stClose.pc \notin {"open", "sourceQueueClosed"}

\* SetThumbnailAsync (tier thumb), or the SetSourceAsync of a GetObject under way
\* (tier source), called once Close has closed the tier's queue: the queue is not
\* nil, and a send on a closed channel panics, in a select with a default case as
\* anywhere else; the panic ends the process and its goroutines
AsyncSetAfterClose(tier) ==
  /\ stClose.pc # "panicked"
  /\ StQueueClosed(tier)
  /\ stClose' = [stClose EXCEPT !.pc = "panicked"]
  /\ stWorkers' = [t \in StTiers |-> 0]
  /\ UNCHANGED <<srcMem, srcDisk, srcQueue, srcGot, csVars, notStVars>>

\* a task received by a worker after Close was called is recorded as applied
StApply(tier, task) ==
  IF stClose.pc = "open" THEN stClose
  ELSE [stClose EXCEPT !.applied = @ \cup {StTask(tier, task)}]

\* CachedStorage.sourceWriter: one task is received and handed to
\* sourceDiskCache.Set, whose error is logged
sourceWriter ==
  /\ stWorkers["source"] > 0
  /\ srcQueue # <<>>
  /\ \E ok \in BOOLEAN :
       srcDisk' = IF ok THEN [srcDisk EXCEPT ![Head(srcQueue).key] = Head(srcQueue).data]
                  ELSE srcDisk
  /\ srcQueue' = Tail(srcQueue)
  /\ stClose' = StApply("source", Head(srcQueue))
  /\ UNCHANGED <<srcMem, srcGot, stWorkers, csVars, notStVars>>

\* CachedStorage.thumbWriter: one task is received and handed to
\* thumbDiskCache.Set, whose error is logged
thumbWriter ==
  /\ stWorkers["thumb"] > 0
  /\ csQueue # <<>>
  /\ \E ok \in BOOLEAN :
       csDisk' = IF ok THEN [csDisk EXCEPT ![Head(csQueue).key] = Head(csQueue).data]
                 ELSE csDisk
  /\ csQueue' = Tail(csQueue)
  /\ stClose' = StApply("thumb", Head(csQueue))
  /\ UNCHANGED <<csMem, csLastSet, csGot, srcMem, srcDisk, srcQueue, srcGot, stWorkers,
                 notStVars>>

\* a writer goroutine receives from its closed and empty queue and returns
WriterExit(tier) ==
  /\ stWorkers[tier] > 0
  /\ StQueueClosed(tier)
  /\ (IF tier = "source" THEN srcQueue ELSE csQueue) = <<>>
  /\ stWorkers' = [stWorkers EXCEPT ![tier] = @ - 1]
  /\ UNCHANGED <<srcMem, srcDisk, srcQueue, srcGot, stClose, csVars, notStVars>>

\* Close: close(sourceWriteQueue)
CloseSourceQueue ==
  /\ stClose.pc = "open"
  /\ stClose' = [pc |-> "sourceQueueClosed",
                 tasks |-> StQueued("source", srcQueue) \cup StQueued("thumb", csQueue),
                 applied |-> {}]
  /\ UNCHANGED <<srcMem, srcDisk, srcQueue, srcGot, stWorkers, csVars, notStVars>>

\* a variant of the second step of Close that does not wait for the source workers
CloseThumbQueueNoWait ==
  /\ stClose.pc = "sourceQueueClosed"
  /\ stClose' = [stClose EXCEPT !.pc = "thumbQueueClosed"]
  /\ UNCHANGED <<srcMem, srcDisk, srcQueue, srcGot, stWorkers, csVars, notStVars>>

\* Close: sourceWriteMu.Wait() has returned; close(thumbWriteQueue)
CloseThumbQueue ==
  /\ stClose.pc = "sourceQueueClosed"
  /\ stWorkers["source"] = 0
  /\ stClose' = [stClose EXCEPT !.pc = "thumbQueueClosed"]
  /\ UNCHANGED <<srcMem, srcDisk, srcQueue, srcGot, stWorkers, csVars, notStVars>>

\* Close: thumbWriteMu.Wait() has returned; sourceMemoryCache.Wait() and Close()
CloseSourceMemory ==
  /\ stClose.pc = "thumbQueueClosed"
  /\ stWorkers["thumb"] = 0
  /\ stClose' = [stClose EXCEPT !.pc = "sourceMemoryClosed"]
  /\ UNCHANGED <<srcMem, srcDisk, srcQueue, srcGot, stWorkers, csVars, notStVars>>

\* Close: thumbMemoryCache.Wait() and Close(); Close returns nil
CloseThumbMemory ==
  /\ stClose.pc = "sourceMemoryClosed"
  /\ stClose' = [stClose EXCEPT !.pc = "closed"]
  /\ UNCHANGED <<srcMem, srcDisk, srcQueue, srcGot, stWorkers, csVars, notStVars>>

\* DiskCache.cleanupExpired of a tier's disk cache: its goroutine loops on the
\* ticker for as long as the process lives, and a pass removes the entry of a key
DiskCleanup(tier, k) ==
  /\ stClose.pc # "panicked"
  /\ IF tier = "source"
     THEN /\ srcDisk[k] # <<>>
          /\ srcDisk' = [srcDisk EXCEPT ![k] = <<>>]
          /\ UNCHANGED csDisk
     ELSE /\ csDisk[k] # <<>>
          /\ csDisk' = [csDisk EXCEPT ![k] = <<>>]
          /\ UNCHANGED srcDisk
  /\ UNCHANGED <<srcMem, srcQueue, srcGot, stWorkers, stClose,
                 csMem, csQueue, csLastSet, csGot, notStVars>>

StoreNext ==
  \/ \E k \in CsKeys : GetObject(k)
  \/ \E k \in CsKeys, v \in CsValues : StSetThumbnailAsync(k, v)
  \/ sourceWriter
  \/ thumbWriter
  \/ \E tier \in StTiers : WriterExit(tier)
  \/ \E tier \in StTiers : AsyncSetAfterClose(tier)
  \/ CloseSourceQueue
  \/ CloseThumbQueue
  \/ CloseSourceMemory
  \/ CloseThumbMemory
  \/ \E tier \in StTiers, k \in CsKeys : DiskCleanup(tier, k)

SpecStore == StoreInit /\ [][StoreNext]_vars

StDrained ==
  /\ srcQueue = <<>> /\ csQueue = <<>>
  /\ \A tier \in StTiers : stWorkers[tier] = 0
  /\ stClose.tasks \subseteq stClose.applied

C16_DiskCachesClosed ==
  [][stClose.pc = "closed" =>
       ~ \E tier \in StTiers, k \in CsKeys : DiskCleanup(tier, k)]_vars

\* the task GetObject queues for a key
SourceTask(k) == [key |-> k, data |-> StObject(k)]

FaultRequests == 2

\* the steps of the handler, taken by the first FaultRequests requests
FaultStep(i) ==
  \/ \E k \in Keys : Arrive(i, k)
  \/ Lookup(i)
  \/ Parse(i)
  \/ VerifyStep(i)
  \/ Do(i)
  \/ Acquire(i)
  \/ Fetch(i)
  \/ Transform(i)
  \/ Release(i)
  \/ Finish(i)
  \/ Wake(i)
  \/ Store(i)
  \/ Enqueue(i)

\* a variant of LookupReadError that fails the request
LookupReadErrorFails(i) ==
  /\ pc[i] = "lookup"
  /\ thumbMem[url[i]] = <<>> /\ thumbDisk[url[i]] # <<>>
  /\ hist' = [hist EXCEPT ![i] = @ \cup {"readerror"}]
  /\ resp' = [resp EXCEPT ![i] = ErrorResponse(500)]
  /\ pc' = [pc EXCEPT ![i] = "done"]
  /\ UNCHANGED <<semCap, url, got, role, leaderOf, outcome, group, processSem,
                 thumbMem, thumbQueue, thumbDisk, transformCalls, notHandlerVars>>

\* ServeHTTP 407-413 with GetThumbnail 189-204: the memory tier misses and
\* thumbDiskCache.Get returns an error for an entry it holds (the file cannot be
\* read); GetThumbnail returns found = false and the handler goes on to parsing
LookupReadError(i) ==
  /\ pc[i] = "lookup"
  /\ thumbMem[url[i]] = <<>> /\ thumbDisk[url[i]] # <<>>
  /\ hist' = [hist EXCEPT ![i] = @ \cup {"readerror"}]
  /\ pc' = [pc EXCEPT ![i] = "parse"]
  /\ UNCHANGED <<semCap, url, got, role, leaderOf, outcome, resp, group, processSem,
                 thumbMem, thumbQueue, thumbDisk, transformCalls, notHandlerVars>>

\* ServeHTTP 476-480: store.GetObject returns the backing store's error for a key
\* that does not exist (drivers/local.go 62-65: "file not found"); fn returns it
FetchNotFound(i) ==
  /\ pc[i] = "fetch"
  /\ hist' = [hist EXCEPT ![i] = @ \cup {"fetched", "notfound"}]
  /\ pc' = [pc EXCEPT ![i] = "release"]
  /\ outcome' = [outcome EXCEPT ![i] = [err |-> TRUE, result |-> NoThumbnail]]
  /\ UNCHANGED <<semCap, url, got, role, leaderOf, resp, group, processSem,
                 thumbMem, thumbQueue, thumbDisk, transformCalls, notHandlerVars>>

\* ServeHTTP 476-480: store.GetObject(r.Context(), req.Path) runs on the context
\* of the leader's request; once that context is cancelled the backing store's
\* client (S3Client.GetObject passes ctx on) returns the context's error, and fn
\* returns it to the whole flight
FetchCancelled(i) ==
  /\ pc[i] = "fetch"
  /\ i \in cancelled
  /\ hist' = [hist EXCEPT ![i] = @ \cup {"fetched", "aborted"}]
  /\ pc' = [pc EXCEPT ![i] = "release"]
  /\ outcome' = [outcome EXCEPT ![i] = [err |-> TRUE, result |-> NoThumbnail]]
  /\ UNCHANGED <<semCap, url, got, role, leaderOf, resp, group, processSem,
                 thumbMem, thumbQueue, thumbDisk, transformCalls, notHandlerVars>>

\* thumbWriter: thumbDiskCache.Set of the received task returns an error, which
\* is logged
ThumbWriterFails ==
  /\ thumbQueue # <<>>
  /\ thumbQueue' = Tail(thumbQueue)
  /\ UNCHANGED <<semCap, pc, url, got, role, leaderOf, outcome, resp, hist, group,
                 processSem, thumbMem, thumbDisk, transformCalls, notHandlerVars>>

\* the client of a request in progress goes away: r.Context() is cancelled
Cancel(i) ==
  /\ pc[i] \notin {"idle", "done"}
  /\ i \notin cancelled
  /\ cancelled' = cancelled \cup {i}
  /\ UNCHANGED <<handlerVars, sigVars, csVars, dcVars, pass, fsVars, stVars, applied,
                 scanner>>

FaultNext ==
  \/ \E i \in 1..FaultRequests : FaultStep(i)
  \/ \E i \in 1..FaultRequests : LookupReadError(i)
  \/ \E i \in 1..FaultRequests : FetchNotFound(i)
  \/ \E i \in 1..FaultRequests : FetchCancelled(i)
  \/ \E i \in 1..FaultRequests : Cancel(i)
  \/ ThumbWriter
  \/ ThumbWriterFails
  \/ \E k \in Keys : MemoryDrop(k)

SpecFaults == HandlerInit /\ [][FaultNext]_vars

\* the status and body ServeHTTP gives request i with caching disabled: 400 for
\* a URL that does not parse, 404 for a signature that does not verify, 500 when
\* the fetch or the transformation of its flight failed, and otherwise 200 with
\* the thumbnail produced for its URL
Uncached(i) ==
  IF Plans[url[i]].err # "" THEN [status |-> 400, body |-> <<>>]
  ELSE IF Verdicts[url[i]] # "ok" THEN [status |-> 404, body |-> <<>>]
  ELSE IF outcome[i].err THEN [status |-> 500, body |-> <<>>]
  ELSE [status |-> 200, body |-> Produced[url[i]].Data]

\* C18: no cache failure is surfaced to the client. A request whose cache lookup
\* ended in a disk read error or returned an entry that does not decode goes
\* through parse and verify (and, for a valid URL, through a flight); every
\* request that was not served from the cache gets the status and body it gets
\* with caching disabled, whatever the memory admission, the queue and the disk
\* write did; a 500 only ever follows a failed fetch or transformation.
C18_CacheFailuresHidden ==
  \A i \in Requests :
    pc[i] = "done" =>
      /\ ("readerror" \in hist[i] \/ (got[i] # <<>> /\ decodeThumbnailBinary(got[i]).err)) =>
           /\ {"parsed"} \subseteq hist[i]
           /\ Plans[url[i]].err = "" => "verified" \in hist[i]
           /\ resp[i].xcache # "HIT"
      /\ "parsed" \in hist[i] =>
           /\ resp[i].status = Uncached(i).status
           /\ resp[i].body = Uncached(i).body
      /\ resp[i].status = 500 =>
           /\ outcome[i].err
           /\ "fetched" \in hist[leaderOf[i]]
      /\ resp[i].status = 200 =>
           /\ resp[i].body = Produced[url[i]].Data
           /\ resp[i].ctype = Produced[url[i]].ContentType

\* one request was answered 200 after its disk read failed, another after the
\* cached entry of its key did not decode, and the memory tier holds neither
C18_Witness ==
  \E i, j \in Requests :
    /\ pc[i] = "done" /\ "readerror" \in hist[i] /\ resp[i].status = 200
    /\ pc[j] = "done" /\ got[j] = CorruptEntry /\ resp[j].status = 200
    /\ thumbMem[url[i]] = <<>> /\ thumbMem[url[j]] = <<>>

\* C19: a request whose flight was told by the backing store that the source
\* key does not exist is answered 404.
C19_NotFoundIs404 ==
  \A i \in Requests :
    (pc[i] = "done" /\ role[i] # "none" /\ "notfound" \in hist[leaderOf[i]]) =>
      resp[i].status = 404

\* request i is at a step of ServeHTTP that it can take
CanStep(i) == ENABLED FaultStep(i)

\* C20: the semaphore acquire is cancellable: a leader waiting for a processing
\* slot whose request context has been cancelled is not held at the acquire.
C20_AcquireCancellable ==
  \A i \in Requests :
    (pc[i] = "acquire" /\ i \in cancelled) => CanStep(i)

\* C21: cancellation of the request that leads a flight does not abort the
\* coalesced work: a follower whose own request is still live is not answered
\* with the error of a fetch that the leader's cancellation ended.
C21_LeaderOutlivesRequest ==
  \A j \in Requests :
    (pc[j] = "done" /\ role[j] = "follower" /\ j \notin cancelled
       /\ leaderOf[j] \in cancelled) =>
      "aborted" \notin hist[leaderOf[j]]

\* ---------------------------------------------------------------------------
\* The handler over a disk cache that is not empty at startup: NewDiskCache
\* loads the index from the files an earlier run has left (clearOnStartup =
\* false), among them a thumbnail stored under a URL whose signature does not
\* verify under the secret of this run.
\* ---------------------------------------------------------------------------

\* the URL whose entry the earlier run has left: the one with the wrong signature
WarmKey == 3

\* the entry as the earlier run's thumbWriter wrote it
WarmEntry == encodeThumbnailBinary(CreateThumbnail(Plans[WarmKey]))

WarmInit ==
  /\ \E o \in Overrides : semCap = NewThumbnailHandler(NumCPU, o)
  /\ pc = [i \in Requests |-> "idle"]
  /\ url = [i \in Requests |-> 0]
  /\ got = [i \in Requests |-> <<>>]
  /\ role = [i \in Requests |-> "none"]
  /\ leaderOf = [i \in Requests |-> 0]
  /\ outcome = [i \in Requests |-> NoOutcome]
  /\ resp = [i \in Requests |-> NoResponse]
  /\ hist = [i \in Requests |-> {}]
  /\ group = [k \in Keys |-> 0]
  /\ processSem = 0
  /\ thumbMem = [k \in Keys |-> <<>>]
  /\ thumbQueue = <<>>
  /\ \E warm \in BOOLEAN :
       thumbDisk = [k \in Keys |-> IF k = CorruptKey THEN CorruptEntry
                                   ELSE IF k = WarmKey /\ warm THEN WarmEntry
                                   ELSE <<>>]
  /\ transformCalls = [k \in Keys |-> 0]
  /\ SigParked /\ CsParked /\ DcParked /\ ExtParked

SpecWarm == WarmInit /\ [][FaultNext]_vars

\* request j is a request for URL k that passed ParseURL and Verify and stored the
\* thumbnail its flight produced
StoredBy(j, k) ==
  /\ url[j] = k /\ {"parsed", "verified", "memset"} \subseteq hist[j]
  /\ Plans[k].err = "" /\ Verdicts[k] = "ok" /\ ~outcome[j].err
  /\ "transformed" \in hist[leaderOf[j]]

Wrapped(n) ==
  <<"1","8","4","4","6","7","4","4","0","7","3","7","0","9","5","5","1","6">> \o n

PlanSizes ==
  {<<"0","x","0">>, <<"x">>, <<"1","x">>, <<"x","1">>, <<"2","x","3">>,
   <<"5","1","2","0","x","5","1","2","0">>, <<"5","1","2","1","x","1">>,
   Wrapped(<<"1","7">>) \o <<"x","1">>}

F_fill == <<"f","i","t","(">> \o S_fill \o <<")">>
F_fillTransparent == <<"f","i","t","(">> \o S_fill \o <<",">> \o S_transparent \o <<")">>
F_png == <<"f","o","r","m","a","t","(">> \o S_png \o <<")">>
F_webp == <<"f","o","r","m","a","t","(">> \o S_webp \o <<")">>
F_quality == <<"q","u","a","l","i","t","y","(","8","0",")">>
F_qualityWrapped == <<"q","u","a","l","i","t","y","(">> \o Wrapped(<<"6","6">>) \o <<")">>
F_crop == <<"c","r","o","p","(","0",",","0",",","2",",","2",")">>
F_pcrop == <<"p","c","r","o","p","(","0",",","0",",","5","0",",","5","0",")">>
F_blur == <<"b","l","u","r","(","1",")">>

\* the filter lists a URL may carry (<<>>: no filters segment)
PlanFilters ==
  {<<>>, F_fill, F_fillTransparent, F_fillTransparent \o <<";">> \o F_png, F_png,
   F_quality, F_pcrop \o <<";">> \o F_fill, F_fill \o <<";">> \o F_crop,
   F_crop \o <<";">> \o F_pcrop, F_png \o <<";">> \o F_webp, F_blur, F_qualityWrapped}

PlanSources ==
  {<<"a",".","j","p","g">>, <<"a",".","p","n","g">>, <<"a",".","a","v","i","f">>,
   <<"a">>, <<"a",".","j","p","g","?","v">>}

\* the /as/{alias.ext} suffixes (<<>>: none)
PlanAliases ==
  {<<>>, <<"/","a","s","/","b",".","p","n","g">>, <<"/","a","s","/","b",".","a","v","i","f">>}

\* /{size}/[filters:{filters}/]{path}[/as/{alias.ext}]
PlanPayload(sz, fl, sp, al) ==
  <<"/">> \o sz \o (IF fl = <<>> THEN <<>> ELSE <<"/">> \o S_filters \o fl)
          \o <<"/">> \o sp \o al

PlanInit ==
  /\ sigSecret \in {<<>>, SignatureKey}
  /\ \E sz \in PlanSizes, fl \in PlanFilters, sp \in PlanSources, al \in PlanAliases :
       sigPath = SignedUrl(IF sigSecret = <<>> THEN <<"none", <<>>>>
                           ELSE <<"token", sigSecret>>, PlanPayload(sz, fl, sp, al))
  /\ sigPc = "start"
  /\ sigReq = EmptyRequest
  /\ sigVerify = "none"
  /\ HandlerParked /\ CsParked /\ DcParked /\ ExtParked

\* the operations of the plan that ApplyAll collects in processingOps: every
\* operation that is neither the format, the quality nor the resize operation
RECURSIVE processingOps(_)
processingOps(ops) ==
  IF ops = <<>> THEN <<>>
  ELSE IF ops[1].name \in {"format", "quality", "resize"} THEN processingOps(Tail(ops))
  ELSE <<ops[1]>> \o processingOps(Tail(ops))

\* the steps of an ApplyAll that applies the operations in the order of the plan
ApplyAllInPlanOrder(ops) ==
  LET pixel == [i \in 1..Len(ops) |-> ops[i].name \notin {"format", "quality"}]
      RECURSIVE steps(_)
      steps(i) == IF i > Len(ops) THEN <<>>
                  ELSE IF pixel[i] THEN <<[step |-> "apply", op |-> ops[i]]>> \o steps(i + 1)
                  ELSE steps(i + 1)
  IN steps(1) \o <<[step |-> "export",
                    op |-> [name |-> "export",
                            Format |-> ops[lastOperation(ops, "format")].Format,
                            Quality |-> ops[lastOperation(ops, "quality")].Quality]]>>

\* ApplyAll: the steps taken on the image, in order: Apply of each processing
\* operation, Apply of the resize operation, Export with the format operation and
\* the quality operation's value
ApplyAll(ops) ==
  LET p == processingOps(ops)
  IN [i \in 1..Len(p) |-> [step |-> "apply", op |-> p[i]]]
     \o <<[step |-> "apply", op |-> ops[lastOperation(ops, "resize")]]>>
     \o <<[step |-> "export",
           op |-> [name |-> "export",
                   Format |-> ops[lastOperation(ops, "format")].Format,
                   Quality |-> ops[lastOperation(ops, "quality")].Quality]]>>

\* ServeHTTP 484-492: CreateThumbnail runs ApplyAll on the verified request
PlanApply ==
  /\ sigPc = "verified"
  /\ sigVerify = "ok"
  /\ applied' = ApplyAll(sigReq.Operations)
  /\ sigPc' = "applied"
  /\ UNCHANGED <<sigSecret, sigPath, sigReq, sigVerify, handlerVars, csVars, dcVars,
                 pass, fsVars, stVars, cancelled, scanner>>

PlanNext == SigParse \/ SigVerify \/ PlanApply

SpecPlan == PlanInit /\ [][PlanNext]_vars

\* ParseURL has returned a plan
Planned == sigPc # "start" /\ sigReq.err = ""

\* number of operations of the given type in the plan
CountOps(name) ==
  Cardinality({i \in 1..Len(sigReq.Operations) : sigReq.Operations[i].name = name})

\* the filters of the URL's filter list, trimmed, in the order of the URL
UrlFilters ==
  LET fs == Split(sigReq.FilterString, ";") IN [i \in 1..Len(fs) |-> TrimSpace(fs[i])]

\* the argument of the URL's filter of the given name ("name(" ... ")"), lower-cased;
\* <<>> when the URL has no such filter
FilterValue(pre) ==
  IF \E i \in 1..Len(UrlFilters) : HasPrefix(UrlFilters[i], pre)
  THEN LET f == UrlFilters[CHOOSE i \in 1..Len(UrlFilters) : HasPrefix(UrlFilters[i], pre)]
       IN ToLower(TrimSpace(SubSeq(f, Len(pre) + 1, Len(f) - 1)))
  ELSE <<>>

\* the output format the resolution order filter, alias extension, source-path
\* extension, jpeg yields for the parsed URL
ResolvedFormat ==
  IF FilterValue(<<"f","o","r","m","a","t","(">>) # <<>>
  THEN FilterValue(<<"f","o","r","m","a","t","(">>)
  ELSE IF sigReq.HasAlias THEN detectKnownFormat(sigReq.Alias)
  ELSE IF detectKnownFormat(sigReq.Path) # <<>> THEN detectKnownFormat(sigReq.Path)
  ELSE S_jpeg

\* the quality the resolution order filter, 75 yields for the parsed URL
ResolvedQuality ==
  IF FilterValue(<<"q","u","a","l","i","t","y","(">>) # <<>>
  THEN DecValue(FilterValue(<<"q","u","a","l","i","t","y","(">>), 0)
  ELSE DefaultQuality

\* C22: every plan returned by ParseURL holds exactly one resize, one format and one
\* quality operation, at most one operation of every other type and never both crop
\* and pcrop; its format is the format filter's value, else the alias extension,
\* else the source-path extension, else jpeg; its quality is the quality filter's
\* value, else 75.
C22_PlanShape ==
  Planned =>
    /\ CountOps("resize") = 1 /\ CountOps("format") = 1 /\ CountOps("quality") = 1
    /\ \A n \in {"fit", "crop", "pcrop"} : CountOps(n) <= 1
    /\ ~(CountOps("crop") > 0 /\ CountOps("pcrop") > 0)
    /\ sigReq.Operations[getFormatOperation(sigReq.Operations)].Format = ResolvedFormat
    /\ sigReq.Operations[lastOperation(sigReq.Operations, "quality")].Quality = ResolvedQuality

\* the request URL as the client wrote it: its segments, its filter list (<<>>: no
\* filters segment), its alias file name (<<>>: no /as/ suffix) and the last segment
\* of its source path
UrlSegments == Split(TrimPrefix(sigPath, <<"/">>), "/")

UrlFilterList ==
  IF \E i \in 1..Len(UrlSegments) : HasPrefix(UrlSegments[i], S_filters)
  THEN Split(TrimPrefix(UrlSegments[CHOOSE i \in 1..Len(UrlSegments) :
                                       HasPrefix(UrlSegments[i], S_filters)], S_filters), ";")
  ELSE <<>>

UrlAlias ==
  IF Len(UrlSegments) >= 2 /\ UrlSegments[Len(UrlSegments) - 1] = S_as
  THEN UrlSegments[Len(UrlSegments)] ELSE <<>>

UrlSourceName ==
  IF UrlAlias # <<>> THEN UrlSegments[Len(UrlSegments) - 2] ELSE UrlSegments[Len(UrlSegments)]

\* the name of a filter: what precedes its opening parenthesis
FilterName(f) == SubSeq(f, 1, IndexByte(f, "(") - 1)

UrlFilterNames == {FilterName(UrlFilterList[i]) : i \in 1..Len(UrlFilterList)}

KnownFilterNames ==
  {<<"f","o","r","m","a","t">>, <<"q","u","a","l","i","t","y">>, <<"f","i","t">>,
   <<"c","r","o","p">>, <<"p","c","r","o","p">>}

\* the argument list of the URL's filter of the given name (<<>>: no such filter)
UrlFilterArgs(name) ==
  IF name \in UrlFilterNames
  THEN LET f == UrlFilterList[CHOOSE i \in 1..Len(UrlFilterList) : FilterName(UrlFilterList[i]) = name]
       IN SubSeq(f, Len(name) + 2, Len(f) - 1)
  ELSE <<>>

\* the output format of the URL: format filter, else alias extension, else what the
\* source file name's extension gives
UrlFormat ==
  IF UrlFilterArgs(<<"f","o","r","m","a","t">>) # <<>>
  THEN normalizeFormatName(UrlFilterArgs(<<"f","o","r","m","a","t">>))
  ELSE IF UrlAlias # <<>> THEN detectKnownFormat(UrlAlias)
  ELSE DetectFromExtension(UrlSourceName)

UnknownFilterInUrl == \E n \in UrlFilterNames : n \notin KnownFilterNames

DuplicateFilterInUrl ==
  \E i, j \in 1..Len(UrlFilterList) :
    i # j /\ FilterName(UrlFilterList[i]) = FilterName(UrlFilterList[j])

CropAndPcropInUrl == {<<"c","r","o","p">>, <<"p","c","r","o","p">>} \subseteq UrlFilterNames

TransparentOpaqueInUrl ==
  /\ UrlFilterArgs(<<"f","i","t">>) = S_fill \o <<",">> \o S_transparent
  /\ UrlFormat \notin {S_png, S_webp, S_avif}

AliasConflictInUrl ==
  /\ UrlAlias # <<>>
  /\ UrlFilterArgs(<<"f","o","r","m","a","t">>) # <<>>
  /\ normalizeFormatName(UrlFilterArgs(<<"f","o","r","m","a","t">>)) # detectKnownFormat(UrlAlias)

\* C23: ParseURL returns an error for a URL with an unknown filter name, with two
\* filters of one type, with crop together with pcrop, with fit(fill,transparent)
\* and an output format other than png, webp and avif, or with an alias extension
\* that differs from the format filter.
C23_RejectedCombinations ==
  (sigPc # "start" /\ (UnknownFilterInUrl \/ DuplicateFilterInUrl \/ CropAndPcropInUrl
                        \/ TransparentOpaqueInUrl \/ AliasConflictInUrl))
    => sigReq.err # ""

\* C23 witness: a URL with a valid size, crop and pcrop has been rejected for the
\* combination
C23_Witness ==
  /\ sigPc = "parsed" /\ CropAndPcropInUrl /\ ~DuplicateFilterInUrl /\ ~UnknownFilterInUrl
  /\ sigReq.err = "crop-and-pcrop"

\* the size segment of the request URL: the segment after /thumbs/, or after the
\* signature segment when there is one
UrlSize == IF IsSizeFormat(UrlSegments[2]) THEN UrlSegments[2] ELSE UrlSegments[3]

\* a URL of a size segment and a source path only
PlainUrl == UrlFilterList = <<>> /\ UrlAlias = <<>>

\* the size segments 0x0, x, 1x, x1 and {max}x{max}
BoundarySizes ==
  {<<"0","x","0">>, <<"x">>, <<"1","x">>, <<"x","1">>,
   <<"5","1","2","0","x","5","1","2","0">>}

\* C24: ParseURL accepts the size segments 0x0, x, 1x, x1 and {max}x{max} and rejects
\* a size segment whose width is max+1.
C24_BoundarySizes ==
  (sigPc # "start" /\ PlainUrl) =>
    /\ UrlSize \in BoundarySizes => sigReq.err = ""
    /\ UrlSize = <<"5","1","2","1","x","1">> => sigReq.err # ""

\* the size segment of the URL omits the width or the height
UrlSizePartial ==
  LET x == IndexByte(UrlSize, "x") IN x = 1 \/ x = Len(UrlSize)

\* C25: a URL whose filter list contains fit(fill) and whose size segment omits the
\* width or the height is rejected by ParseURL.
C25_FillNeedsBothDimensions ==
  (sigPc # "start" /\ UrlFilterArgs(<<"f","i","t">>) = S_fill /\ UrlSizePartial)
    => sigReq.err # ""

\* the path of the request URL after /thumbs/, with the signature segment removed
UrlAfterSignature ==
  LET raw == TrimPrefix(sigPath, <<"/">> \o S_thumbs \o <<"/">>)
  IN IF sigReq.ProvidedSignature # <<>>
     THEN TrimPrefix(raw, sigReq.ProvidedSignature \o <<"/">>) ELSE raw

\* the URL rebuilt from the canonical fields of the request: /thumbs, the provided
\* signature as a segment when there is one, the signature payload (which carries
\* its own leading slash)
RebuiltUrl ==
  <<"/">> \o S_thumbs
    \o (IF sigReq.ProvidedSignature # <<>> THEN <<"/">> \o sigReq.ProvidedSignature ELSE <<>>)
    \o sigReq.SignaturePayload

\* C26: for every URL path ParseURL accepts, the signature payload is '/' followed by
\* the path after /thumbs/ without its signature segment, and parsing the URL rebuilt
\* from the provided signature and the payload yields the same plan.
C26_PayloadRoundTrip ==
  Planned =>
    /\ sigReq.SignaturePayload = <<"/">> \o UrlAfterSignature
    /\ ParseURL(RebuiltUrl) = sigReq

\* the operation type a filter name of the URL stands for
OperationName(n) ==
  CASE n = <<"f","i","t">> -> "fit"
    [] n = <<"c","r","o","p">> -> "crop"
    [] n = <<"p","c","r","o","p">> -> "pcrop"
    [] n = <<"f","o","r","m","a","t">> -> "format"
    [] n = <<"q","u","a","l","i","t","y">> -> "quality"
    [] OTHER -> ""

IsPixelOperation(n) == n \in {"fit", "crop", "pcrop"}

\* the non-resize pixel operations of the URL, in the order the URL declares them
UrlPixelOperations ==
  SelectSeq([i \in 1..Len(UrlFilterList) |-> OperationName(FilterName(UrlFilterList[i]))],
            IsPixelOperation)

\* C27: ApplyAll applies the non-resize pixel operations in the order of the URL,
\* then the resize operation, then encodes with the format and quality operations;
\* no pixel operation is applied after the resize.
C27_ResizeAppliedLast ==
  sigPc = "applied" =>
    /\ Len(applied) = Len(UrlPixelOperations) + 2
    /\ \A i \in 1..Len(UrlPixelOperations) :
         applied[i].step = "apply" /\ applied[i].op.name = UrlPixelOperations[i]
    /\ applied[Len(applied) - 1].step = "apply"
    /\ applied[Len(applied) - 1].op.name = "resize"
    /\ applied[Len(applied)].step = "export"
    /\ applied[Len(applied)].op.Format = UrlFormat
    /\ applied[Len(applied)].op.Quality = ResolvedQuality

\* C27 witness: a plan with pcrop and fit, in this order in the URL, has been applied
C27_Witness ==
  /\ sigPc = "applied"
  /\ UrlPixelOperations = <<"pcrop", "fit">>
  /\ Len(applied) = 4 /\ applied[1].op.name = "pcrop" /\ applied[3].op.name = "resize"

(***************************************************************************)
(* Sweep development: the cleanup goroutine of cleanupExpired runs pass    *)
(* after pass over an index that receives no Get, Set or Delete. Every     *)
(* pass is performCleanup taken loop by loop as in the pass development,   *)
(* at the real budgets; every missingCheckEvery-th timer pass checks for   *)
(* missing files. The clock stands still: the entries that are not expired *)
(* at the start stay unexpired.                                            *)
(***************************************************************************)
BaseInterval == 30        \* cleanupExpired: baseInterval, in seconds
MaxInterval == 600        \* maxInterval
IdleStep == 30            \* idleStep
MissingCheckEvery == 10   \* missingCheckEvery

\* cleanupExpired 755-762: the interval after a timer pass
NextIntervalGrows(interval, removed, currentCount) ==
  Min(interval + IdleStep, MaxInterval)
NextInterval(interval, removed, currentCount) ==
  IF currentCount = 0 \/ removed = 0 THEN Min(interval + IdleStep, MaxInterval)
  ELSE BaseInterval

\* the goroutine waiting in its select: its locals interval and runs, and the number
\* of signals in cleanupWake. Only runs % missingCheckEvery is ever read, and runs is
\* kept modulo missingCheckEvery.
NewScanner(interval, wake) ==
  [pc |-> "wait", interval |-> interval, runs |-> 0, wake |-> wake]

\* the indexes the sweeps start from: `small` one-byte entries, oldest first, the
\* first `expired` of them expired, then an entry of `big` bytes when big > 0; the
\* file of the entry at position `gone` has been removed by an external actor
\* (0: none). The index of 1053 entries is the one of the pass development. The
\* small indexes are swept by a goroutine that starts at baseInterval, the smallest
\* ones with or without a signal the last operation has left in cleanupWake; the
\* large ones by a goroutine that idle passes have already backed off to maxInterval.
SweepScenarios ==
  {[small |-> n, big |-> 0, maxSize |-> 0, expired |-> e, gone |-> g] :
      n \in 0..3, e \in 0..1, g \in 0..3}
  \cup {[small |-> 257, big |-> 0, maxSize |-> 0, expired |-> 0, gone |-> g] :
          g \in {1, 256, 257}}
  \cup {[small |-> 1580, big |-> 0, maxSize |-> 0, expired |-> 300, gone |-> 0],
        [small |-> 1052, big |-> 3000, maxSize |-> 4000, expired |-> 0, gone |-> 0]}

SweepFiles(sc) ==
  [a \in {<<i, PassExpiresAt(sc, i)>> : i \in 1..PassCount(sc)} |->
     IF a[1] = sc.gone THEN 0 ELSE PassSize(sc, a[1])]

SweepInit ==
  /\ \E sc \in SweepScenarios :
       /\ sc.expired <= sc.small /\ sc.gone <= sc.small
       /\ dcLru = PassIndex(sc)
       /\ dcFiles = SweepFiles(sc)
       /\ dcCurrentSize = PassTotal(sc)
       /\ pass = NoPass(sc.maxSize)
       /\ \E wake \in {0, 1} :
            /\ wake = 1 => sc.small <= 1
            /\ scanner = IF sc.small <= 3 THEN NewScanner(BaseInterval, wake)
                         ELSE NewScanner(MaxInterval, 0)
  /\ dcPhase = "running" /\ dcScan = <<>> /\ dcDeleteQueue = <<>> /\ dcInline = {}
  /\ dcCleanupPos = 0 /\ dcNow = DcStart /\ dcPending = <<>> /\ dcCleared = FALSE
  /\ dcGot = NoGot
  /\ SigParked /\ HandlerParked /\ CsParked /\ FsParked /\ StParked /\ NoneCancelled
  /\ NotApplied

sweepFixed == <<dcPhase, dcScan, dcFiles, dcNow, dcPending, dcCleared, dcGot,
                sigVars, handlerVars, csVars, fsVars, stVars, cancelled, applied,
                indexVars, dcCleanupPos>>

\* case <-timer.C: runs++
SweepTimer ==
  /\ scanner.pc = "wait"
  /\ scanner' = [scanner EXCEPT !.pc = "timer", !.runs = (@ + 1) % MissingCheckEvery]
  /\ UNCHANGED <<pass, sweepFixed>>

\* case <-dc.cleanupWake: a pass follows only when the interval is above the base
SweepWake ==
  /\ scanner.pc = "wait"
  /\ scanner.wake > 0
  /\ scanner' = [scanner EXCEPT !.wake = @ - 1,
                                !.pc = IF scanner.interval > BaseInterval THEN "wake"
                                       ELSE "wait"]
  /\ UNCHANGED <<pass, sweepFixed>>

\* dc.performCleanup(checkMissingFiles) is called: with runs % missingCheckEvery == 0
\* from the timer branch, with false from the wake branch
SweepPass ==
  /\ scanner.pc \in {"timer", "wake"}
  /\ PassStart(scanner.pc = "timer" /\ scanner.runs = 0)

\* performCleanup returns its stats and the interval is set: to the base after a
\* wake pass, by the removals and the entries left after a timer pass
SweepReturn ==
  /\ scanner.pc \in {"timer", "wake"}
  /\ pass.pc = "done"
  /\ scanner' = [scanner EXCEPT
                   !.pc = "wait",
                   !.interval = IF scanner.pc = "wake" THEN BaseInterval
                                ELSE NextInterval(@, pass.removed + pass.evicted,
                                                  Len(dcLru))]
  /\ pass' = NoPass(pass.maxSize)
  /\ UNCHANGED sweepFixed

SweepNext ==
  \/ SweepTimer
  \/ SweepWake
  \/ SweepPass
  \/ PassScan
  \/ PassStat
  \/ PassRemoveExpired
  \/ PassRemoveMissing
  \/ PassEvict
  \/ PassEvictLoop
  \/ SweepReturn

SpecSweep == SweepInit /\ [][SweepNext]_vars

\* the goroutine keeps running: the timer fires and every loop of a pass goes on
SpecSweepFair == SpecSweep /\ WF_vars(SweepNext)

\* an entry of the index that has not expired and whose file is gone
Dangling(entry) == ~After(dcNow, entry.expiresAt) /\ dcFiles[entry.path] = 0

\* the sum of the sizes of the index of a sweep scenario, whose entries have one byte
\* each except the big one at the end
SweepSum(lru) ==
  IF lru = <<>> THEN 0 ELSE (Len(lru) - 1) + lru[Len(lru)].size

\* C31 as stated: in a cache that receives no Get, Set or Delete, an unexpired entry
\* whose file an external actor has removed eventually leaves the index, and
\* currentSize is then the sum of the sizes of the entries left, whatever the size
\* of the index and the position of the entry.
C31_DanglingEntryRemoved ==
  <>[](/\ \A i \in 1..Len(dcLru) : ~Dangling(dcLru[i])
       /\ dcCurrentSize = SweepSum(dcLru))

CleanupWakeCap == 1   \* NewDiskCache: cleanupWake: make(chan struct{}, 1)

\* notifyActivity: a send on cleanupWake that is dropped when the channel is full
notifyActivity(sc) == IF sc.wake < CleanupWakeCap THEN [sc EXCEPT !.wake = @ + 1] ELSE sc

\* an entry loadIndexFromDisk found at startup: the last key, far from its expiry
ScannerLoaded ==
  [hash |-> DcNumHashes,
   path |-> getFilePathWithExpiration(DcNumHashes, DcMaxTime + DcTTL),
   size |-> 1, expiresAt |-> DcMaxTime + DcTTL]

ScannerInit ==
  /\ dcPhase = "running"
  /\ dcScan = <<>>
  /\ \E loaded \in {<<>>, <<ScannerLoaded>>} :
       /\ dcLru = loaded
       /\ dcCurrentSize = Len(loaded)
       /\ dcFiles = [a \in Paths |-> IF loaded # <<>> /\ a = ScannerLoaded.path THEN 1 ELSE 0]
  /\ dcDeleteQueue = <<>>
  /\ dcInline = {}
  /\ dcCleanupPos = 0
  /\ dcNow = DcStart - DcTTL
  /\ dcPending = [w \in Writers |-> NoEntry]
  /\ dcCleared = FALSE
  /\ dcGot = NoGot
  /\ scanner = NewScanner(BaseInterval, 0)
  /\ SigParked /\ HandlerParked /\ CsParked /\ PassParked /\ FsParked /\ StParked
  /\ NoneCancelled /\ NotApplied

scannerFixed == <<dcPhase, dcScan, dcPending, dcCleared, sigVars, handlerVars, csVars,
                  pass, fsVars, stVars, cancelled, applied>>

\* Get: notifyActivity, then the lookup
ScannerGet(hash) ==
  /\ scanner.pc = "wait"
  /\ scanner' = notifyActivity(scanner)
  /\ IF LruIndex(dcLru, hash) = 0 THEN IndexBecomes(IndexState)
     ELSE IndexBecomes(GetEntry(LruTouch(IndexState, LruIndex(dcLru, hash)), hash))
  /\ dcGot' = [hash |-> hash, result |-> GetResult(dcLru, hash)]
  /\ UNCHANGED <<dcFiles, dcCleanupPos, dcNow, scannerFixed>>

\* Set: notifyActivity, the file is written and renamed, the index is updated
ScannerSet(hash, size) ==
  /\ scanner.pc = "wait"
  /\ scanner' = notifyActivity(scanner)
  /\ dcFiles' = [dcFiles EXCEPT ![getFilePathWithExpiration(hash, dcNow + DcTTL)] = size]
  /\ IndexBecomes(SetAdd([hash |-> hash,
                          path |-> getFilePathWithExpiration(hash, dcNow + DcTTL),
                          size |-> size, expiresAt |-> dcNow + DcTTL]))
  /\ dcGot' = NoGot
  /\ UNCHANGED <<dcCleanupPos, dcNow, scannerFixed>>

\* Delete: notifyActivity, then lru.Remove
ScannerDelete(hash) ==
  /\ scanner.pc = "wait"
  /\ scanner' = notifyActivity(scanner)
  /\ IndexBecomes(LruRemove(IndexState, hash))
  /\ dcGot' = NoGot
  /\ UNCHANGED <<dcFiles, dcCleanupPos, dcNow, scannerFixed>>

\* performCleanup as one step: the index it leaves and the cursor it leaves
ScannerCleanup(checkMissingFiles) ==
  IF dcLru = <<>> THEN evictForSizeLocked(IndexState, 1024)
  ELSE performCleanup(IndexState, dcCleanupPos % Len(dcLru), checkMissingFiles)
ScannerCursor ==
  IF dcLru = <<>> THEN 0
  ELSE ((dcCleanupPos % Len(dcLru)) + ScanCount(Len(dcLru))) % Len(dcLru)

\* case <-timer.C: runs++, performCleanup(runs % missingCheckEvery == 0), and the
\* interval is set by the removals of the pass and the entries it leaves
ScannerTimerPass(ds, runs) ==
  /\ IndexBecomes(ds)
  /\ scanner' = [scanner EXCEPT
                   !.runs = runs,
                   !.interval = NextInterval(@, Len(dcLru) - Len(ds.lru), Len(ds.lru))]
ScannerTimerRuns(runs) ==
  ScannerTimerPass(ScannerCleanup(runs = 0), runs)
ScannerTimer ==
  /\ scanner.pc = "wait"
  /\ ScannerTimerRuns((scanner.runs + 1) % MissingCheckEvery)
  /\ dcCleanupPos' = ScannerCursor
  /\ dcGot' = NoGot
  /\ UNCHANGED <<dcFiles, dcNow, scannerFixed>>

\* case <-dc.cleanupWake: above the base interval performCleanup(false) runs and the
\* interval returns to the base; at the base the signal is dropped
ScannerWake ==
  /\ scanner.pc = "wait"
  /\ scanner.wake > 0
  /\ IF scanner.interval > BaseInterval
     THEN /\ IndexBecomes(ScannerCleanup(FALSE))
          /\ dcCleanupPos' = ScannerCursor
          /\ scanner' = [scanner EXCEPT !.wake = @ - 1, !.interval = BaseInterval]
     ELSE /\ UNCHANGED <<indexVars, dcCleanupPos>>
          /\ scanner' = [scanner EXCEPT !.wake = @ - 1]
  /\ dcGot' = NoGot
  /\ UNCHANGED <<dcFiles, dcNow, scannerFixed>>

ScannerNext ==
  \/ ScannerGet(1)
  \/ ScannerSet(1, 1)
  \/ ScannerDelete(1)
  \/ ScannerTimer
  \/ ScannerWake
  \/ DeleteWorker
  \/ \E path \in Paths : InlineDelete(path)
  \/ Tick

SpecScanner == ScannerInit /\ [][ScannerNext]_vars

\* a step of the timer branch of cleanupExpired, and the entries its pass removed
ScannerTimerStep == scanner'.runs # scanner.runs
ScannerRemoved == Len(dcLru) - Len(dcLru')
\* a step that receives from cleanupWake
ScannerWakeStep == scanner'.wake < scanner.wake

\* what C33 says of the signal: at most one is pending, a caller that finds one
\* pending goes on without adding its own, and one received above the base
\* interval brings the interval back to the base
ScannerSignalRule ==
  /\ scanner'.wake <= CleanupWakeCap
  /\ scanner'.interval \in BaseInterval..MaxInterval
  /\ (scanner.wake = CleanupWakeCap /\ ~ScannerWakeStep) => scanner'.wake = CleanupWakeCap
  /\ (ScannerWakeStep /\ scanner.interval > BaseInterval) => scanner'.interval = BaseInterval

\* C33 as stated: the interval stays between 30 s and 10 min, grows by one step
\* (capped) after a timer pass with zero removals and is 30 s after a timer pass
\* that removed at least one entry; a signal received above 30 s resets it; at most
\* one signal is pending and a caller never waits to signal
C33_Original ==
  [][/\ ScannerSignalRule
     /\ ScannerTimerStep =>
           scanner'.interval = IF ScannerRemoved = 0
                               THEN Min(scanner.interval + IdleStep, MaxInterval)
                               ELSE BaseInterval]_vars

\* C33 as the code has it: the interval stays between 30 s and 10 min; it grows by
\* one step (capped at 10 min) after a timer pass that removed nothing or that left
\* the index empty, and is 30 s after a timer pass that removed at least one entry
\* and left at least one; a signal received above 30 s resets it to 30 s; at most
\* one signal is pending and a caller never waits to signal
C33_IntervalRule ==
  [][/\ ScannerSignalRule
     /\ ScannerTimerStep =>
           scanner'.interval = IF ScannerRemoved = 0 \/ dcLru' = <<>>
                               THEN Min(scanner.interval + IdleStep, MaxInterval)
                               ELSE BaseInterval]_vars

\* C33 witness: the scanner has backed off to 10 min, the index holds an entry and
\* the signal of a caller is pending in cleanupWake
C33_Witness ==
  /\ scanner.interval = MaxInterval
  /\ scanner.wake = CleanupWakeCap
  /\ dcLru # <<>>

\* the paths the index refers to
IndexedPaths(lru) == {lru[i].path : i \in 1..Len(lru)}

\* C34 as stated: when an operation of the running cache other than Clear has
\* removed an entry from the index, the entry's path is in the delete queue, or else
\* the queue was full and the file is unlinked by the time the operation is over
C34_RemovedPathQueuedOrUnlinked ==
  [][(dcPhase = "running" /\ ~dcCleared') =>
       \A path \in IndexedPaths(dcLru) \ IndexedPaths(dcLru') :
         \/ \E i \in 1..Len(dcDeleteQueue') : dcDeleteQueue'[i] = path
         \/ Len(dcDeleteQueue) = DcDeleteQueueCap /\ dcFiles'[path] = 0]_vars

\* writer w returns from Set with an error while no other Set is under way
FsSetFails(w) ==
  /\ fsWriter[w].pc \in {"open", "write", "rename"}
  /\ fsWriter'[w].pc = "idle"
  /\ \A v \in FsWriters \ {w} : fsWriter[v].pc = "idle"

\* C35 as stated: when a Set returns an error, no {path}.tmp is on disk and the
\* index and the delete queue are as they were before the call
C35_FailedSetLeavesNothing ==
  [][\A w \in FsWriters :
       FsSetFails(w) => (fsDir'.tmp = 0 /\ fsIndex' = fsIndex /\ fsQueue' = fsQueue)]_vars

\* C36 as stated, for the source lookup of GetObject: a lookup answered by the
\* memory tier has not consulted the disk tier, and a lookup answered by the disk
\* tier missed in memory first and has left its value in the memory tier
C36_MemoryThenDiskWithPromotion ==
  /\ srcGot.memory = "hit" => (srcGot.disk = "none" /\ srcGot.backing = "none")
  /\ srcGot.disk = "hit" =>
       (srcGot.memory = "miss" /\ srcGot.backing = "none"
        /\ srcMem[srcGot.key] = srcGot.data)

\* C37 as stated: SetThumbnailAsync and SetSourceAsync called while Close runs or
\* after it never panic
C37_AsyncSetSurvivesClose == stClose.pc # "panicked"

(***************************************************************************)
(* Writer configuration development: newCachedStorage starts the workers   *)
(* of a tier, and makes its queue, only when the tier's async_write is     *)
(* enabled. Close is not called here, so that a tier has no workers        *)
(* exactly when its queue is nil. Both disk caches are enabled.            *)
(***************************************************************************)
WriterInit ==
  /\ csMem = [k \in CsKeys |-> <<>>]
  /\ csDisk = [k \in CsKeys |-> <<>>]
  /\ csQueue = <<>>
  /\ csLastSet = [k \in CsKeys |-> NoSet]
  /\ csGot = NoGet
  /\ srcMem = [k \in CsKeys |-> <<>>]
  /\ srcDisk = [k \in CsKeys |-> <<>>]
  /\ srcQueue = <<>>
  /\ srcGot = NoObject
  /\ stWorkers \in [StTiers -> {0, StNumWorkers}]
  /\ stClose = [pc |-> "open", tasks |-> {}, applied |-> {}]
  /\ SigParked /\ HandlerParked /\ DcParked /\ PassParked /\ FsParked /\ NoneCancelled
  /\ NotApplied /\ ScannerParked

\* cs.sourceWriteQueue == nil, cs.thumbWriteQueue == nil
QueueIsNil(tier) == stWorkers[tier] = 0

\* GetObject, layer 3, with the source queue nil: the memory cache is Set and
\* SetSourceAsync returns at once ("Async writes not enabled, do nothing")
GetObjectBackingNilQueue(k, answer) ==
  IF answer = "ok"
  THEN \E admitted \in BOOLEAN :
         /\ srcMem' = MemorySet(srcMem, k, StObject(k), admitted)
         /\ srcGot' = [NoObject EXCEPT !.key = k, !.memory = "miss", !.disk = "miss",
                          !.backing = "ok",
                          !.set = IF admitted THEN "admitted" ELSE "rejected",
                          !.data = StObject(k)]
  ELSE /\ srcGot' = [NoObject EXCEPT !.key = k, !.memory = "miss", !.disk = "miss",
                        !.backing = answer, !.err = TRUE]
       /\ UNCHANGED srcMem

\* CachedStorage.GetObject under either configuration of the source writer
WriterGetObject(k) ==
  IF ~QueueIsNil("source") THEN GetObject(k)
  ELSE /\ \/ GetObjectMemory(k)
          \/ GetObjectDisk(k)
          \/ /\ srcMem[k] = <<>> /\ srcDisk[k] = <<>>
             /\ \E answer \in {"ok", "notfound", "failed"} : GetObjectBackingNilQueue(k, answer)
             /\ UNCHANGED srcQueue
       /\ UNCHANGED <<srcDisk, stWorkers, stClose, csVars, notStVars>>

\* the end of a cache-miss request: SetThumbnail, then SetThumbnailAsync, which
\* returns at once when the thumbnail queue is nil
WriterStoreThumbnail(k, v) ==
  /\ \E admitted \in BOOLEAN : csMem' = MemorySet(csMem, k, v, admitted)
  /\ csQueue' = IF QueueIsNil("thumb") \/ Len(csQueue) >= CsQueueSize THEN csQueue
                ELSE Append(csQueue, [key |-> k, data |-> v])
  /\ csGot' = [NoGet EXCEPT !.key = k, !.expect = v]
  /\ UNCHANGED <<csDisk, csLastSet, srcMem, srcDisk, srcQueue, srcGot, stWorkers, stClose,
                 notStVars>>

WriterNext ==
  \/ \E k \in CsKeys : WriterGetObject(k)
  \/ \E k \in CsKeys, v \in CsValues : WriterStoreThumbnail(k, v)
  \/ sourceWriter
  \/ thumbWriter

SpecWriter == WriterInit /\ [][WriterNext]_vars

\* C38 as stated: with a tier's disk cache enabled and its async writer disabled,
\* the thumbnail of a cache-miss request, and the source of a successful fetch from
\* the backing store, is in the tier's disk cache when the call is over
C38_SynchronousDiskWrite ==
  [][/\ \A k \in CsKeys :
          (QueueIsNil("source") /\ srcGot' # srcGot /\ srcGot'.key = k
           /\ srcGot'.backing = "ok") => srcDisk'[k] = StObject(k)
     /\ \A k \in CsKeys :
          (QueueIsNil("thumb") /\ csGot' # csGot /\ csGot'.key = k)
             => csDisk'[k] = csGot'.expect]_vars

\* the handler under faults with every request's goroutine scheduled: a step a
\* request can take is eventually taken; every fetch and transformation returns
SpecFaultsFair ==
  /\ SpecFaults
  /\ \A i \in 1..FaultRequests :
       WF_vars(FaultStep(i) \/ LookupReadError(i) \/ FetchNotFound(i) \/ FetchCancelled(i))

\* the requests inside ServeHTTP
Serving == {i \in Requests : pc[i] \notin {"idle", "done"}}

\* C39: the slot a leader acquired is released when its function ends, whether the
\* fetch failed, the transformation failed or both succeeded: a leader leaves the
\* fetch and the transformation only towards the release, which takes one token
\* back; with no request in the handler every slot is free; and every request that
\* has arrived eventually has its response
C39_SlotReleased ==
  /\ [](Serving = {} => processSem = 0)
  /\ [][\A i \in Requests :
          /\ (pc[i] \in {"fetch", "transform"} /\ pc'[i] \notin {"fetch", "transform"})
                => pc'[i] = "release"
          /\ (pc[i] = "release" /\ pc'[i] # "release")
                => processSem' = processSem - 1]_vars
  /\ \A i \in 1..FaultRequests : (pc[i] # "idle") ~> (pc[i] = "done")

\* C39 witness: every request has its response and no slot is taken, after one
\* flight whose fetch failed and one whose transformation was reached and failed
C39_Witness ==
  /\ \A i \in 1..FaultRequests : pc[i] = "done"
  /\ processSem = 0
  /\ \E i, j \in 1..FaultRequests :
       /\ outcome[i].err /\ "fetched" \in hist[i] /\ "transformed" \notin hist[i]
       /\ outcome[j].err /\ "transformed" \in hist[j]

\* the digit string s, leading zeros apart, is the decimal notation of a number
\* from lo to hi (hi below 10^9)
RECURSIVE StripZeros(_)
StripZeros(s) == IF s # <<>> /\ s[1] = "0" THEN StripZeros(Tail(s)) ELSE s
DecimalWithin(s, lo, hi) ==
  /\ s # <<>>
  /\ \A i \in 1..Len(s) : s[i] \in Range(Digits)
  /\ Len(StripZeros(s)) <= 9
  /\ DecValue(StripZeros(s), 0) >= lo /\ DecValue(StripZeros(s), 0) <= hi

\* the width and the height of the URL's size segment, as written
UrlWidth == SubSeq(UrlSize, 1, IndexByte(UrlSize, "x") - 1)
UrlHeight == SubSeq(UrlSize, IndexByte(UrlSize, "x") + 1, Len(UrlSize))

\* C40 as stated: in a URL that ParseURL accepts, a dimension that is given is the
\* notation of a number from 1 to its maximum and the argument of the quality
\* filter that of a number from 1 to 100; a digit string whose value does not fit
\* the int is rejected
C40_DecimalInRange ==
  (sigPc # "start" /\ sigReq.err = "") =>
    /\ UrlWidth # <<>> => DecimalWithin(UrlWidth, 1, MaxResizeWidth)
    /\ UrlHeight # <<>> => DecimalWithin(UrlHeight, 1, MaxResizeHeight)
    /\ UrlFilterArgs(<<"q","u","a","l","i","t","y">>) # <<>> =>
         DecimalWithin(TrimSpace(UrlFilterArgs(<<"q","u","a","l","i","t","y">>)), 1, 100)

====
